---- MODULE Spec2Model ----
(***************************************************************************)
(* Model of the match resolution pipeline of the USDA mapping agent:       *)
(* EnhancedNutritionFetchOrchestrator (orchestrator_enhanced.py) and the   *)
(* tools it calls (mapping_tool, cache_tool, semantic_verification_tool,   *)
(* nutritional_similarity_tool, nutrition_extractor_tool, nutrient_mapper).*)
(*                                                                         *)
(* Conventions.  Python strings are TLA+ strings.  Python None in a        *)
(* numeric slot (fdc_id, score, amount) is the value None == -1; all ids   *)
(* and scores of the program are non-negative.  A Python dict that may be  *)
(* None (food_data) is a record with the field "none" when it is None.     *)
(* The external services (FDC catalog, LLM) answer nondeterministically.   *)
(***************************************************************************)
EXTENDS Integers, Sequences, FiniteSets, TLC

(***************************************************************************)
(* Bounds of the model                                                     *)
(***************************************************************************)
MaxResults == 2            \* longest candidate list one catalog search returns
MaxLLMItems == 1           \* longest JSON array an LLM response carries
MaxTierLen == 2            \* longest result list one tier search returns
MaxClientCalls == 3        \* calls made on one USDAApiClient
MaxKeys == 2               \* entries of a curated mapping file
MaxLLMCalls == 3           \* calls of the functions that ask the LLM for JSON

None == 0 - 1

(***************************************************************************)
(* String helpers (Python str methods used by the tools)                   *)
(***************************************************************************)
Upper == "ABCDEFGHIJKLMNOPQRSTUVWXYZ"
Lower == "abcdefghijklmnopqrstuvwxyz"

Ch(s, i) == SubSeq(s, i, i)

\* the lower-case letter of every upper-case letter
LowerOf ==
    [c \in {Ch(Upper, i) : i \in 1..Len(Upper)} |->
        Ch(Lower, CHOOSE i \in 1..Len(Upper) : Ch(Upper, i) = c)]

LowerCh(c) == IF c \in DOMAIN LowerOf THEN LowerOf[c] ELSE c

RECURSIVE lower(_)
lower(s) == IF s = "" THEN "" ELSE LowerCh(Ch(s, 1)) \o lower(SubSeq(s, 2, Len(s)))

RECURSIVE lstrip(_)
lstrip(s) == IF s /= "" /\ Ch(s, 1) = " " THEN lstrip(SubSeq(s, 2, Len(s))) ELSE s

RECURSIVE rstrip(_)
rstrip(s) == IF s /= "" /\ Ch(s, Len(s)) = " " THEN rstrip(SubSeq(s, 1, Len(s) - 1)) ELSE s

strip(s) == rstrip(lstrip(s))

endswith(s, suffix) ==
    Len(s) >= Len(suffix) /\ SubSeq(s, Len(s) - Len(suffix) + 1, Len(s)) = suffix

RECURSIVE replace(_, _, _)
replace(s, old, new) ==
    IF s = "" THEN ""
    ELSE (IF Ch(s, 1) = old THEN new ELSE Ch(s, 1)) \o replace(SubSeq(s, 2, Len(s)), old, new)

\* Python's `sub in s`
contains(s, sub) ==
    \E i \in 1..(Len(s) - Len(sub) + 1) : SubSeq(s, i, i + Len(sub) - 1) = sub

(***************************************************************************)
(* tools/mapping_tool.py : the curated mapping store                       *)
(***************************************************************************)
\* the loaded curated mapping file: key -> fdc_id of the entry
CuratedF == 1
_mappings_cache == [k \in {"milk"} |-> CuratedF]

\* _fuzzy_match with a defect: the separator variations are tried before the
\* plural forms
_fuzzy_match_variations_first(ingredient, mappings) ==
    LET ingredient_lower == strip(lower(ingredient))
        keys == DOMAIN mappings
        singular == SubSeq(ingredient_lower, 1, Len(ingredient_lower) - 1)
        plural == ingredient_lower \o "s"
        plural_es == ingredient_lower \o "es"
        variations == << replace(ingredient_lower, " ", "_"),
                         replace(ingredient_lower, "_", " "),
                         replace(ingredient_lower, "-", " "),
                         replace(ingredient_lower, " ", "-") >>
        hits == {i \in 1..4 : variations[i] \in keys}
    IN  IF ingredient_lower \in keys THEN ingredient_lower
        ELSE IF hits /= {} THEN variations[CHOOSE i \in hits : \A j \in hits : i <= j]
        ELSE IF endswith(ingredient_lower, "s") /\ singular \in keys THEN singular
        ELSE IF ~endswith(ingredient_lower, "s") /\ plural \in keys THEN plural
        ELSE IF ~endswith(ingredient_lower, "s") /\ plural_es \in keys THEN plural_es
        ELSE ""

\* _fuzzy_match: the matched key, or "" when the code returns None
_fuzzy_match(ingredient, mappings) ==
    LET ingredient_lower == strip(lower(ingredient))
        keys == DOMAIN mappings
        singular == SubSeq(ingredient_lower, 1, Len(ingredient_lower) - 1)
        plural == ingredient_lower \o "s"
        plural_es == ingredient_lower \o "es"
        variations == << replace(ingredient_lower, " ", "_"),
                         replace(ingredient_lower, "_", " "),
                         replace(ingredient_lower, "-", " "),
                         replace(ingredient_lower, " ", "-") >>
        hits == {i \in 1..4 : variations[i] \in keys}
    IN  IF ingredient_lower \in keys THEN ingredient_lower
        ELSE IF endswith(ingredient_lower, "s") /\ singular \in keys THEN singular
        ELSE IF ~endswith(ingredient_lower, "s") /\ plural \in keys THEN plural
        ELSE IF ~endswith(ingredient_lower, "s") /\ plural_es \in keys THEN plural_es
        ELSE IF hits /= {} THEN variations[CHOOSE i \in hits : \A j \in hits : i <= j]
        ELSE ""

\* search_mappings: the fdc_id of the matched entry, or None
search_mappings(ingredient) ==
    LET matched_key == _fuzzy_match(ingredient, _mappings_cache)
    IN  IF matched_key /= "" THEN _mappings_cache[matched_key] ELSE None

\* search_mappings with an explicit mappings dictionary (lines 136-144)
search_mappings_in(ingredient, mappings) ==
    LET matched_key == _fuzzy_match(ingredient, mappings)
    IN  IF matched_key /= "" THEN mappings[matched_key] ELSE None

\* keys a curated mapping file can hold, and the fdc_id of the entry of each
MappingKeys ==
    {"milk", "milks", "berry", "berries", "tomato", "boxes", "a b", "a_b", "a-b", "a_bs"}

MappingEntryOf ==
    [k \in MappingKeys |->
        CASE k = "milk" -> 11 [] k = "milks" -> 12 [] k = "berry" -> 13
          [] k = "berries" -> 14 [] k = "tomato" -> 15 [] k = "boxes" -> 16
          [] k = "a b" -> 17 [] k = "a_b" -> 18 [] k = "a-b" -> 19 [] k = "a_bs" -> 20]

\* the curated mapping files of up to MaxKeys entries
MappingStores ==
    {[k \in keys |-> MappingEntryOf[k]] :
        keys \in {K \in SUBSET MappingKeys : Cardinality(K) <= MaxKeys}}

\* ingredient names handed to search_mappings
LookupIngredients ==
    {"Milks", " milk ", "berries", "berry", "tomatoes", "box", "a b", "a_b", "a-b", "a bs",
     "rice"}

\* no search_mappings call made on the loaded store
NoLookup ==
    [mappings |-> _mappings_cache, ingredient |-> "", matched_key |-> "", entry |-> None,
     done |-> FALSE]

(***************************************************************************)
(* utils/nutrient_mapper.py and tools/nutrition_extractor_tool.py          *)
(***************************************************************************)
\* entries of the built-in dictionary of catalog nutrient names
USDA_NUTRIENT_MAPPINGS ==
    [n \in {"Energy", "Protein", "Water"} |->
        CASE n = "Energy" -> "nutrient-calories-energy"
          [] n = "Protein" -> "nutrient-protein"
          [] n = "Water" -> "nutrient-water"]

\* the nutrient ids of the definitions table (nutrition_definitions_117.csv)
get_all_nutrient_ids == {"nutrient-calories-energy", "nutrient-protein", "nutrient-water"}

\* the standardized id of a catalog nutrient name, or "" when the code returns None
map_usda_nutrient_to_standard(usda_nutrient_name) ==
    LET usda_lower == lower(usda_nutrient_name)
        ci == {k \in DOMAIN USDA_NUTRIENT_MAPPINGS : lower(k) = usda_lower}
    IN  IF usda_nutrient_name \in DOMAIN USDA_NUTRIENT_MAPPINGS
            THEN USDA_NUTRIENT_MAPPINGS[usda_nutrient_name]
        ELSE IF ci /= {} THEN USDA_NUTRIENT_MAPPINGS[CHOOSE k \in ci : TRUE]
        ELSE IF contains(usda_lower, "energy") \/ contains(usda_lower, "calorie")
            THEN "nutrient-calories-energy"
        ELSE IF contains(usda_lower, "protein") THEN "nutrient-protein"
        ELSE IF contains(usda_lower, "fat") /\ contains(usda_lower, "total")
            THEN "nutrient-total-fat"
        ELSE IF contains(usda_lower, "carbohydrate") THEN "nutrient-total-carbohydrates"
        ELSE IF contains(usda_lower, "fiber") \/ contains(usda_lower, "fibre")
            THEN "nutrient-dietary-fiber"
        ELSE IF contains(usda_lower, "sugar") THEN "nutrient-total-sugars"
        ELSE IF contains(usda_lower, "sodium") THEN "nutrient-sodium"
        ELSE IF contains(usda_lower, "calcium") THEN "nutrient-calcium"
        ELSE IF contains(usda_lower, "iron") THEN "nutrient-iron"
        ELSE IF contains(usda_lower, "vitamin c") \/ contains(usda_lower, "ascorbic")
            THEN "nutrient-vitamin-c-ascorbic-acid"
        ELSE ""

\* the value of a nutrient slot that holds Python None
NullNutrient == [amount |-> None, unit |-> ""]

\* extract_all_nutrients: usda_nutrients is the raw dict in insertion order,
\* a sequence of [name, amount, unit]; every id of the table starts as None
RECURSIVE extract_all_nutrients_from(_, _)
extract_all_nutrients_from(usda_nutrients, result) ==
    IF usda_nutrients = <<>> THEN result
    ELSE LET nutrient_data == Head(usda_nutrients)
             nutrient_id == map_usda_nutrient_to_standard(nutrient_data.name)
             updated == IF nutrient_id /= "" /\ nutrient_id \in DOMAIN result
                        THEN [result EXCEPT ![nutrient_id] =
                                 [amount |-> nutrient_data.amount, unit |-> nutrient_data.unit]]
                        ELSE result
         IN  extract_all_nutrients_from(Tail(usda_nutrients), updated)

extract_all_nutrients(usda_nutrients) ==
    extract_all_nutrients_from(usda_nutrients,
                               [nutrient_id \in get_all_nutrient_ids |-> NullNutrient])

\* the raw `nutrients` dict built by extract_nutrition_data from foodNutrients:
\* items without an amount or a name are skipped, a repeated name keeps its
\* first position and takes the last value
RECURSIVE raw_nutrients(_, _)
raw_nutrients(food_nutrients, acc) ==
    IF food_nutrients = <<>> THEN acc
    ELSE LET nutrient == Head(food_nutrients)
             keep == nutrient.amount /= None /\ nutrient.name /= ""
             at == {i \in 1..Len(acc) : acc[i].name = nutrient.name}
             acc2 == IF ~keep THEN acc
                     ELSE IF at /= {} THEN [acc EXCEPT ![CHOOSE i \in at : TRUE] = nutrient]
                     ELSE Append(acc, nutrient)
         IN  raw_nutrients(Tail(food_nutrients), acc2)

\* extract_nutrition_data: always returns a (non-empty) dict
extract_nutrition_data(food_data) ==
    [fdc_id |-> food_data.fdcId,
     standardized_nutrients |->
         extract_all_nutrients(raw_nutrients(food_data.foodNutrients, <<>>))]

(***************************************************************************)
(* Python list helpers                                                     *)
(***************************************************************************)
\* items[:n]
take(items, n) == SubSeq(items, 1, IF Len(items) < n THEN Len(items) ELSE n)

\* list.sort(key=..., reverse=True): stable, descending; keys[i] is the key of items[i]
sort_desc(items, keys) ==
    LET n == Len(items)
        rank(i) == 1 + Cardinality({j \in 1..n : keys[j] > keys[i]})
                     + Cardinality({j \in 1..(i - 1) : keys[j] = keys[i]})
    IN  [p \in 1..n |-> items[CHOOSE i \in 1..n : rank(i) = p]]

\* the empty dict {}
EmptyDict == [k \in {} |-> None]

\* dict.get(key) on a dict modelled as a function: None when the key is absent
dict_get(d, key) == IF key \in DOMAIN d THEN d[key] ELSE None

\* d[key] = value
dict_set(d, key, value) ==
    [k \in (DOMAIN d) \cup {key} |-> IF k = key THEN value ELSE d[k]]

(***************************************************************************)
(* tools/semantic_verification_tool.py                                     *)
(***************************************************************************)
\* the cache key of _get_cached_semantic_score / _cache_semantic_score
semantic_cache_key(ingredient, fdc_id) == <<lower(ingredient), fdc_id>>

\* lines 85-98: the first 80 results take their cached score as annotation
annotate_cached(ingredient, usda_results, score_cache) ==
    [i \in 1..Len(usda_results) |->
        LET cached_score == dict_get(score_cache,
                                     semantic_cache_key(ingredient, usda_results[i].fdcId))
        IN  IF i <= 80 /\ cached_score /= None
            THEN [usda_results[i] EXCEPT !.semantic_match_score = cached_score]
            ELSE usda_results[i]]

\* lines 176-189: walk the LLM's array; st = [cache, score (annotation by fdc id),
\* ids (verified_with_data as the fdc ids of the dicts appended, in order)]
RECURSIVE map_back(_, _, _, _)
map_back(ingredient, known_ids, llm_items, st) ==
    IF llm_items = <<>> THEN st
    ELSE LET v_result == Head(llm_items)
             fdc_id == v_result.fdc_id
             st2 == IF fdc_id \in known_ids
                    THEN [cache |-> dict_set(st.cache, semantic_cache_key(ingredient, fdc_id),
                                             v_result.semantic_match_score),
                          score |-> dict_set(st.score, fdc_id, v_result.semantic_match_score),
                          ids |-> Append(st.ids, fdc_id)]
                    ELSE st
         IN  map_back(ingredient, known_ids, Tail(llm_items), st2)

\* the re-admission with a defect: no look at what verified_with_data holds
RECURSIVE readmit_cached_unchecked(_, _, _, _)
readmit_cached_unchecked(ingredient, usda_results, i, st) ==
    IF i > Len(usda_results) \/ i > 80 THEN st
    ELSE LET fdc_id == usda_results[i].fdcId
             cached_score == dict_get(st.cache, semantic_cache_key(ingredient, fdc_id))
             st2 == IF cached_score /= None /\ cached_score >= 40
                    THEN [st EXCEPT !.score = dict_set(st.score, fdc_id, cached_score),
                                    !.ids = Append(st.ids, fdc_id)]
                    ELSE st
         IN  readmit_cached_unchecked(ingredient, usda_results, i + 1, st2)

\* lines 191-200: re-admit results with a cached score >= 40 that are not listed yet
RECURSIVE readmit_cached(_, _, _, _)
readmit_cached(ingredient, usda_results, i, st) ==
    IF i > Len(usda_results) \/ i > 80 THEN st
    ELSE LET fdc_id == usda_results[i].fdcId
             cached_score == dict_get(st.cache, semantic_cache_key(ingredient, fdc_id))
             listed == \E j \in 1..Len(st.ids) : st.ids[j] = fdc_id
             st2 == IF cached_score /= None /\ cached_score >= 40 /\ ~listed
                    THEN [st EXCEPT !.score = dict_set(st.score, fdc_id, cached_score),
                                    !.ids = Append(st.ids, fdc_id)]
                    ELSE st
         IN  readmit_cached(ingredient, usda_results, i + 1, st2)

\* verify_semantic_match: client_ok is _get_llm_client() returning a client,
\* llm is the LLM's answer: [ok |-> FALSE] when the request or json.loads raises,
\* else [ok |-> TRUE, items |-> the JSON array].  Returns the returned list and
\* the semantic score cache afterwards.
verify_semantic_match(ingredient, usda_results, top_n, client_ok, llm, score_cache) ==
    IF ~client_ok THEN [results |-> take(usda_results, top_n), cache |-> score_cache]
    ELSE LET annotated == annotate_cached(ingredient, usda_results, score_cache)
         IN  IF ~llm.ok THEN [results |-> take(annotated, top_n), cache |-> score_cache]
             ELSE LET known_ids == {usda_results[i].fdcId : i \in 1..Len(usda_results)}
                      annotation == [id \in known_ids |->
                          (CHOOSE i \in 1..Len(annotated) : annotated[i].fdcId = id)]
                      st0 == [cache |-> score_cache,
                              score |-> [id \in known_ids |->
                                  annotated[annotation[id]].semantic_match_score],
                              ids |-> <<>>]
                      st1 == map_back(ingredient, known_ids, llm.items, st0)
                      st2 == readmit_cached(ingredient, usda_results, 1, st1)
                      verified_with_data ==
                          [j \in 1..Len(st2.ids) |->
                              [fdcId |-> st2.ids[j],
                               semantic_match_score |-> st2.score[st2.ids[j]]]]
                      keys == [j \in 1..Len(st2.ids) |-> st2.score[st2.ids[j]]]
                  IN  [results |-> take(sort_desc(verified_with_data, keys), top_n),
                       cache |-> st2.cache]

(***************************************************************************)
(* tools/nutritional_similarity_tool.py                                    *)
(***************************************************************************)
\* NUTRIENT_WEIGHTS in hundredths, for the first and the heaviest but one of
\* its entries; the loop of _calculate_nutritional_similarity visits
\* "calories" before "protein_g"
NUTRIENT_WEIGHTS == [n \in {"calories", "protein_g"} |-> IF n = "calories" THEN 15 ELSE 12]

\* the standardized amounts of a candidate's detail record, by basic nutrient
\* name (energy in kcal); None: the nutrient is absent
CandidateAmounts == [DOMAIN NUTRIENT_WEIGHTS -> {None, 0, 10, 30}]

\* _extract_basic_nutrients: a nutrient enters the vector when its amount is
\* truthy; a missing key reads as None
_extract_basic_nutrients(amounts) ==
    [n \in DOMAIN amounts |-> IF amounts[n] = None \/ amounts[n] = 0 THEN None ELSE amounts[n]]

\* _calculate_nutritional_similarity: the score is num / den; similarities are
\* in tenths (exact for amounts 0, 10 and 30).  raised: the test of
\* relative_diff at line 203 reads the variable before any iteration has
\* assigned it (UnboundLocalError).
_calculate_nutritional_similarity(ingredient_nutrients, usda_nutrients) ==
    LET absent(d) == \A n \in DOMAIN d : d[n] = None
        branch(n) ==
            LET ing_value == ingredient_nutrients[n]
                usda_value == usda_nutrients[n]
            IN  IF ing_value = None /\ usda_value = None THEN "skip"
                ELSE IF ing_value = None \/ usda_value = None THEN "missing"
                ELSE IF ing_value = 0 \/ usda_value = 0 THEN "zero"
                ELSE "diff"
        similarity(n) ==
            LET ing_value == ingredient_nutrients[n]
                usda_value == usda_nutrients[n]
                diff == IF ing_value >= usda_value THEN ing_value - usda_value
                        ELSE usda_value - ing_value
                sum == ing_value + usda_value
            IN  IF branch(n) = "missing" THEN 3
                ELSE IF branch(n) = "zero"
                     THEN (IF ing_value = 0 /\ usda_value = 0 THEN 10 ELSE 2)
                ELSE IF sum > 2 * diff THEN (10 * (sum - 2 * diff)) \div sum
                ELSE 0
        counted == {n \in DOMAIN NUTRIENT_WEIGHTS : branch(n) /= "skip"}
        weight(n) == IF n \in counted THEN NUTRIENT_WEIGHTS[n] ELSE 0
        score(n) == IF n \in counted THEN NUTRIENT_WEIGHTS[n] * similarity(n) ELSE 0
        total_weight == weight("calories") + weight("protein_g")
        weighted_score == score("calories") + score("protein_g")
        unbound == \/ branch("calories") = "zero"
                   \/ branch("protein_g") = "zero" /\ branch("calories") /= "diff"
    IN  IF absent(ingredient_nutrients) \/ absent(usda_nutrients)
        THEN [num |-> 0, den |-> 1, raised |-> FALSE]
        ELSE IF unbound THEN [num |-> 0, den |-> 1, raised |-> TRUE]
        ELSE IF total_weight = 0 THEN [num |-> 0, den |-> 1, raised |-> FALSE]
        ELSE [num |-> weighted_score * 10, den |-> total_weight, raised |-> FALSE]

\* the candidates of usda_results[:top_n] whose detail record was fetched;
\* fetched is the set of positions whose get_usda_food_details call returned data
RECURSIVE with_nutrition(_, _, _, _)
with_nutrition(usda_results, top_n, fetched, i) ==
    IF i > Len(usda_results) \/ i > top_n THEN <<>>
    ELSE (IF usda_results[i].fdcId /= None /\ i \in fetched
          THEN <<usda_results[i].fdcId>> ELSE <<>>)
         \o with_nutrition(usda_results, top_n, fetched, i + 1)

\* _calculate_basic_similarity: every fetched candidate scores 70
_calculate_basic_similarity(usda_results, top_n, fetched) ==
    LET ids == with_nutrition(usda_results, top_n, fetched, 1)
    IN  [j \in 1..Len(ids) |-> [fdc_id |-> ids[j], nutritional_similarity_score |-> 70]]

\* lines 391-401: the LLM's entries that name a fetched candidate, in LLM order;
\* score is the annotation of the candidate's dict (the last one written)
RECURSIVE merge_similarity(_, _, _)
merge_similarity(known_ids, llm_items, st) ==
    IF llm_items = <<>> THEN st
    ELSE LET sim_result == Head(llm_items)
             st2 == IF sim_result.fdc_id \in known_ids
                    THEN [score |-> dict_set(st.score, sim_result.fdc_id,
                                             sim_result.nutritional_similarity_score),
                          ids |-> Append(st.ids, sim_result.fdc_id)]
                    ELSE st
         IN  merge_similarity(known_ids, Tail(llm_items), st2)

\* calculate_nutritional_similarity_score: fetched / fetched_again are the
\* positions whose detail fetch succeeds in the first pass and in the fallback
\* pass; llm is the answer to the similarity prompt
calculate_nutritional_similarity_score(usda_results, top_n, client_ok, fetched, llm, fetched_again) ==
    IF ~client_ok THEN _calculate_basic_similarity(usda_results, top_n, fetched)
    ELSE LET results_with_nutrition == with_nutrition(usda_results, top_n, fetched, 1)
             known_ids == {results_with_nutrition[j] : j \in 1..Len(results_with_nutrition)}
             st == merge_similarity(known_ids, llm.items, [score |-> EmptyDict, ids |-> <<>>])
             final_results == [j \in 1..Len(st.ids) |->
                                  [fdc_id |-> st.ids[j],
                                   nutritional_similarity_score |-> st.score[st.ids[j]]]]
             keys == [j \in 1..Len(st.ids) |-> st.score[st.ids[j]]]
         IN  IF results_with_nutrition = <<>> THEN <<>>
             ELSE IF ~llm.ok THEN _calculate_basic_similarity(usda_results, top_n, fetched_again)
             ELSE sort_desc(final_results, keys)

(***************************************************************************)
(* tools/cache_tool.py, tools/llm_tool.py, tools/search_retry_tool.py      *)
(***************************************************************************)
\* str.split(): the words of s between runs of spaces
RECURSIVE split_from(_, _)
split_from(s, word) ==
    IF s = "" THEN (IF word = "" THEN <<>> ELSE <<word>>)
    ELSE IF Ch(s, 1) = " "
         THEN (IF word = "" THEN <<>> ELSE <<word>>) \o split_from(SubSeq(s, 2, Len(s)), "")
         ELSE split_from(SubSeq(s, 2, Len(s)), word \o Ch(s, 1))

split(s) == split_from(s, "")

\* sep.join(items)
RECURSIVE join(_, _)
join(sep, items) ==
    IF items = <<>> THEN ""
    ELSE IF Len(items) = 1 THEN items[1]
    ELSE items[1] \o sep \o join(sep, Tail(items))

\* `x in list`
in_list(x, items) == \E i \in 1..Len(items) : items[i] = x

\* an intent is modelled by its search_query; "" stands for no intent (None)
NoIntent == ""

\* get_cached_search_intent
get_cached_search_intent(cache, ingredient) ==
    LET ingredient_lower == strip(lower(ingredient))
    IN  IF ingredient_lower \in DOMAIN cache THEN cache[ingredient_lower] ELSE NoIntent

\* save_search_intent_cache
save_search_intent_cache(cache, ingredient, search_intent) ==
    dict_set(cache, strip(lower(ingredient)), search_intent)

\* generate_search_intent: llm is [ok |-> FALSE] when the request or the JSON
\* parse raises, else [ok |-> TRUE, search_query |-> the field of the answer]
generate_search_intent(ingredient, client_ok, llm) ==
    IF ~client_ok \/ ~llm.ok THEN NoIntent
    ELSE LET search_query == strip(llm.search_query)
         IN  IF search_query /= "" THEN search_query ELSE ingredient

\* the variant dictionary of generate_retry_search_strategy, in dict order
variations ==
    << [key |-> "tzatziki", variants |-> <<"tzatziki", "tzatziki dip", "tzatziki sauce">>],
       [key |-> "guacamole", variants |-> <<"guacamole", "guacamole nfs", "avocado guacamole">>],
       [key |-> "chutney", variants |-> <<"chutney", "chutney nfs", "mango chutney">>],
       [key |-> "brandy", variants |-> <<"brandy", "brandy distilled", "alcoholic beverage brandy">>],
       [key |-> "sorbet", variants |-> <<"sorbet", "sorbet frozen", "fruit sorbet">>],
       [key |-> "gelato", variants |-> <<"gelato", "gelato ice cream", "italian gelato">>] >>

modifiers == <<"raw", "fresh", "dried", "whole">>

\* the first element of items that satisfies `not in previous_queries`, or ""
first_not_in(items, previous_queries) ==
    LET ok == {i \in 1..Len(items) : ~in_list(items[i], previous_queries)}
    IN  IF ok = {} THEN "" ELSE items[CHOOSE i \in ok : \A j \in ok : i <= j]

\* variation_query with a defect: the first variant, used before or not
variation_query_first_listed(ingredient_lower, previous_queries) ==
    LET ok == {i \in 1..Len(variations) : contains(ingredient_lower, variations[i].key)}
    IN  IF ok = {} THEN ""
        ELSE variations[CHOOSE i \in ok : \A j \in ok : i <= j].variants[1]

\* lines 66-76: the variant chosen for the first matching key that has an unused variant
variation_query(ingredient_lower, previous_queries) ==
    LET ok == {i \in 1..Len(variations) :
                  /\ contains(ingredient_lower, variations[i].key)
                  /\ first_not_in(variations[i].variants, previous_queries) /= ""}
    IN  IF ok = {} THEN ""
        ELSE first_not_in(variations[CHOOSE i \in ok : \A j \in ok : i <= j].variants,
                          previous_queries)

\* generate_retry_search_strategy for attempt = 2 (the only attempt the
\* orchestrator passes); intent is the result of its generate_search_intent call
generate_retry_search_strategy(ingredient, previous_queries, intent) ==
    LET base_query == IF intent /= NoIntent THEN intent ELSE ingredient
        words == split(lower(ingredient))
        variant == variation_query(lower(ingredient), previous_queries)
        free == {i \in 1..Len(modifiers) : ~contains(lower(base_query), modifiers[i])}
        search_query ==
            IF variant /= "" THEN variant
            ELSE IF free /= {}
                 THEN base_query \o " " \o modifiers[CHOOSE i \in free : \A j \in free : i <= j]
            ELSE IF words /= <<>> THEN words[1] ELSE ingredient
    IN  IF in_list(search_query, previous_queries)
        THEN (IF Len(words) > 1 THEN words[Len(words)] ELSE ingredient)
        ELSE search_query


(***************************************************************************)
(* The environment: inputs and the answers of the external services        *)
(***************************************************************************)
\* ingredient strings offered to process_ingredients: "Milks" has a curated
\* entry (through the singular form), "rice" has none
IngredientPool == {"Milks", "rice"}

\* the lists handed to process_ingredients
InputLists == {<<i>> : i \in IngredientPool}

\* a list whose ingredient contains a key of the variant dictionary
VariantInputLists == {<<"tzatziki">>}

RECURSIVE SeqsUpTo(_, _)
SeqsUpTo(S, n) ==
    IF n = 0 THEN {<<>>}
    ELSE LET shorter == SeqsUpTo(S, n - 1)
         IN  shorter \cup {Append(q, x) : q \in {r \in shorter : Len(r) = n - 1}, x \in S}

\* fdc ids the catalog search can return (all truthy)
FdcIds == {2, 3}

\* scores on both sides of every threshold the orchestrator compares with
SemScores == {64, 65, 80, 90}
NutScores == {79, 80, 89, 90}

\* the candidate lists search_usda_food_multi_tier_comprehensive can return:
\* every fdcId truthy and listed once (usda_api_tool.py lines 247-279)
SearchResponses ==
    {[i \in 1..Len(q) |-> [fdcId |-> q[i], semantic_match_score |-> None]] :
        q \in {r \in SeqsUpTo(FdcIds, MaxResults) :
                  \A i, j \in 1..Len(r) : i /= j => r[i] /= r[j]}}

\* answers of the LLM to the semantic verification prompt; an item may name
\* an id that is not among the candidates of the search
SemanticLLMResponses ==
    {[ok |-> FALSE, items |-> <<>>]} \cup
    {[ok |-> TRUE, items |-> q] :
        q \in SeqsUpTo([fdc_id : FdcIds, semantic_match_score : SemScores], MaxLLMItems)}

\* answers of the LLM to the nutritional similarity prompt
SimilarityLLMResponses ==
    {[ok |-> FALSE, items |-> <<>>]} \cup
    {[ok |-> TRUE, items |-> q] :
        q \in SeqsUpTo([fdc_id : FdcIds, nutritional_similarity_score : NutScores],
                       MaxLLMItems)}

\* answers of the LLM to the search intent prompt
IntentLLMResponses ==
    {[ok |-> FALSE, search_query |-> ""],
     [ok |-> TRUE, search_query |-> " rice white "]}

\* foodNutrients arrays of a detail record
FoodNutrientLists ==
    { <<>>,
      <<[name |-> "Energy", amount |-> 52, unit |-> "kcal"],
        [name |-> "Protein", amount |-> None, unit |-> "g"]>> }

\* get_usda_food_details: None, or the detail record of the requested id
NoFoodData == [none |-> TRUE, fdcId |-> None, foodNutrients |-> <<>>]

DetailResponses(fdc_id) ==
    {NoFoodData} \cup
    {[none |-> FALSE, fdcId |-> fdc_id, foodNutrients |-> fn] : fn \in FoodNutrientLists}

\* the intent cache file the process starts with: an entry for "rice", none
\* for "milks"
InitialIntentCaches == {[k \in {"rice"} |-> "rice raw"]}

(***************************************************************************)
(* tools/cache_tool.py under concurrent save_search_intent_cache calls     *)
(***************************************************************************)
\* the threads and the call each one makes: distinct ingredients
CacheSaves ==
    [t \in {1, 2} |-> IF t = 1 THEN [ingredient |-> "Milks", search_intent |-> "milk whole"]
                      ELSE [ingredient |-> "rice", search_intent |-> "rice white"]]

\* the module state of cache_tool and the threads in it.  objs: the dict
\* objects (1, 2: the dict a thread builds in _load_cache, 3: a dict loaded
\* before); cache: the object _cache refers to, 0 for None; file: the
\* "mappings" of the cache file; lock: the holder of _cache_lock, 0 for none;
\* local: the object each thread's `cache` refers to; unlocked: the threads
\* that modified the contents of a dict without holding the lock
NoStore ==
    [objs |-> [o \in 1..3 |-> EmptyDict], cache |-> 0, file |-> EmptyDict, lock |-> 0,
     pc |-> [t \in DOMAIN CacheSaves |-> "idle"],
     local |-> [t \in DOMAIN CacheSaves |-> 0], unlocked |-> {}]

\* _load_cache, lines 21-43, one step of thread t: the test of _cache, the
\* read of the file into a new dict, the assignment to _cache, and
\* `return _cache`, which reads the global again
load_cache_step(s, t) ==
    IF s.pc[t] = "call"
    THEN (IF s.cache /= 0
          THEN [s EXCEPT !.local[t] = s.cache, !.pc[t] = "set"]
          ELSE [s EXCEPT !.pc[t] = "read"])
    ELSE IF s.pc[t] = "read" THEN [s EXCEPT !.objs[t] = s.file, !.pc[t] = "assign"]
    ELSE IF s.pc[t] = "assign" THEN [s EXCEPT !.cache = t, !.pc[t] = "return"]
    ELSE [s EXCEPT !.local[t] = s.cache, !.pc[t] = "set"]

\* save_search_intent_cache, lines 125-127, one step of thread t:
\* cache[ingredient_lower] = search_intent, then _cache = cache
save_intent_step(s, t) ==
    IF s.pc[t] = "set"
    THEN [s EXCEPT !.objs[s.local[t]] =
                       save_search_intent_cache(@, CacheSaves[t].ingredient,
                                                CacheSaves[t].search_intent),
                   !.unlocked = IF s.lock = t THEN @ ELSE @ \cup {t},
                   !.pc[t] = "publish"]
    ELSE [s EXCEPT !.cache = s.local[t], !.pc[t] = "acquire"]

\* _save_cache, lines 50-79, one step of thread t: entering `with
\* _cache_lock`, then the body (the dump of _cache to the file) and the exit
save_cache_step(s, t) ==
    IF s.pc[t] = "acquire" THEN [s EXCEPT !.lock = t, !.pc[t] = "write"]
    ELSE [s EXCEPT !.file = IF s.cache = 0 THEN @ ELSE s.objs[s.cache],
                   !.lock = 0, !.pc[t] = "done"]

(***************************************************************************)
(* The chat completion requests of llm_tool, semantic_verification_tool    *)
(* and nutritional_similarity_tool                                         *)
(***************************************************************************)
\* what client.chat.completions.create followed by json.loads can do: the
\* request raises an exception whose text names response_format or 400, it
\* raises another exception, the content is not valid JSON, or it is JSON
LLMOutcomes == {"format_error", "error", "invalid_json", "json"}

\* the functions that ask the LLM for JSON
LLMComponents == {"generate_search_intent", "verify_semantic_match",
                  "calculate_nutritional_similarity_score"}

\* whether the first request of the function carries
\* response_format={"type": "json_object"}
first_request_hint(component) == component = "generate_search_intent"

\* what the function does on the outcome of its n-th request (n from 1):
\* "again" (a request without response_format), "parsed" or "fallback".
\* llm_tool.py lines 118-164: only an exception of the first request that
\* names response_format or 400 is followed by a second request; json.loads
\* is outside the inner try, so invalid JSON goes to the outer except.
\* semantic_verification_tool.py lines 159-210 and
\* nutritional_similarity_tool.py lines 363-411: one request in one try.
after_llm_request(component, n, outcome) ==
    IF outcome = "json" THEN "parsed"
    ELSE IF component = "generate_search_intent" /\ n = 1 /\ outcome = "format_error"
         THEN "again"
    ELSE "fallback"

\* no function is talking to the LLM
NoExchange ==
    [pc |-> "idle", component |-> "", requests |-> <<>>, result |-> "", calls |-> 0,
     total |-> 0, nutrients |-> <<>>, fallback |-> <<>>]

\* the fallback of calculate_nutritional_similarity_score (lines 289-292 and
\* 409-411) on candidates whose detail records hold `amounts`: the basic
\* nutrient vectors it attaches and the list it returns
gate_fallback(component, then, amounts) ==
    IF component = "calculate_nutritional_similarity_score" /\ then = "fallback"
    THEN [nutrients |-> [i \in 1..Len(amounts) |-> _extract_basic_nutrients(amounts[i])],
          fallback |-> _calculate_basic_similarity(
                           [i \in 1..Len(amounts) |->
                               [fdcId |-> i, semantic_match_score |-> None]],
                           3, 1..Len(amounts))]
    ELSE [nutrients |-> <<>>, fallback |-> <<>>]

(***************************************************************************)
(* tools/usda_api_tool.py : USDAApiClient                                  *)
(***************************************************************************)
\* self.rate_limit_delay = 0.5 seconds; times are in tenths of a second
rate_limit_delay == 5

\* self.max_retries of the client
client_max_retries == 3

\* the wait with a defect: no growth with the attempt
wait_time_fixed(attempt) == 2 * 10

\* wait_time = (2 ** attempt) * 2 seconds
wait_time(attempt) == (2 ^ attempt) * 2 * 10

\* what response.json() can be: a JSON object with or without the "foods"
\* key, or valid JSON that is not an object (an array)
NoJson == [type |-> "none", has_foods |-> FALSE, foods |-> <<>>]

JsonValues ==
    {[type |-> "object", has_foods |-> TRUE, foods |-> f] : f \in {<<>>, <<2>>}} \cup
    {[type |-> "object", has_foods |-> FALSE, foods |-> <<>>],
     [type |-> "array", has_foods |-> FALSE, foods |-> <<>>]}

\* the outcomes of session.get + raise_for_status + response.json():
\* requests.exceptions.Timeout, another RequestException (connection error,
\* HTTP error status), or the decoded body
HttpOutcomes ==
    {[kind |-> "timeout", data |-> NoJson], [kind |-> "request_exception", data |-> NoJson]}
    \cup {[kind |-> "json", data |-> d] : d \in JsonValues}

\* outcomes of a client call
ClientRunning == [kind |-> "running", none |-> FALSE, items |-> <<>>, data |-> NoJson]
ClientRaised == [kind |-> "raised", none |-> FALSE, items |-> <<>>, data |-> NoJson]
ReturnedList(items) == [kind |-> "returned", none |-> FALSE, items |-> items, data |-> NoJson]
ReturnedData(data) == [kind |-> "returned", none |-> FALSE, items |-> <<>>, data |-> data]
ReturnedNone == [kind |-> "returned", none |-> TRUE, items |-> <<>>, data |-> NoJson]

\* lines 71-73 and 106-108: the `finally` clause sleeps rate_limit_delay only
\* in the last iteration of the retry loop
finally_sleep(attempt) ==
    IF attempt = client_max_retries - 1 THEN rate_limit_delay ELSE 0

\* lines 54-70 and 90-105: Timeout and RequestException are handled alike:
\* sleep wait_time and go round again, or give up with [] / None
on_exception(op, attempt) ==
    IF attempt < client_max_retries - 1
    THEN [over |-> FALSE, ret |-> ClientRunning,
          slept |-> wait_time(attempt) + finally_sleep(attempt)]
    ELSE [over |-> TRUE,
          ret |-> IF op = "search" THEN ReturnedList(<<>>) ELSE ReturnedNone,
          slept |-> finally_sleep(attempt)]

\* lines 44-73 (search_food) and 80-108 (get_food_details): one iteration of
\* the retry loop on the outcome of its HTTP request.  over: the call is
\* over; slept: the time slept before the next request can be issued.
\* data.get("foods", []) raises AttributeError on JSON that is not an object;
\* no except clause catches it.
retry_iteration(op, attempt, outcome) ==
    IF outcome.kind /= "json" THEN on_exception(op, attempt)
    ELSE [over |-> TRUE,
          ret |-> IF op = "details" THEN ReturnedData(outcome.data)
                  ELSE IF outcome.data.type /= "object" THEN ClientRaised
                  ELSE IF outcome.data.has_foods THEN ReturnedList(outcome.data.foods)
                  ELSE ReturnedList(<<>>),
          slept |-> finally_sleep(attempt)]

\* USDAApiClient after __init__, no call made yet
NewClient ==
    [pc |-> "idle", op |-> "", attempt |-> 0, slept |-> 0, requests |-> 0,
     calls |-> 0, ret |-> ClientRunning, last |-> [kind |-> "none", data |-> NoJson]]

(***************************************************************************)
(* tools/usda_api_tool.py : search_usda_food_multi_tier_comprehensive      *)
(***************************************************************************)
\* the loop over one tier's results with a defect: no look at seen_fdc_ids
RECURSIVE merge_tier_without_seen(_, _, _)
merge_tier_without_seen(tier_results, tier, st) ==
    IF tier_results = <<>> THEN st
    ELSE LET result == Head(tier_results)
             fdc_id == result.fdcId
             st2 == IF fdc_id /= None /\ fdc_id /= 0
                    THEN [all_results |-> Append(st.all_results,
                                                 [result EXCEPT !.search_tier = tier]),
                          seen_fdc_ids |-> st.seen_fdc_ids \cup {fdc_id}]
                    ELSE st
         IN  merge_tier_without_seen(Tail(tier_results), tier, st2)

\* lines 247-252, 256-261, 265-270, 274-279: the loop over one tier's
\* results; an item is taken when its fdcId is truthy and not seen before
RECURSIVE merge_tier(_, _, _)
merge_tier(tier_results, tier, st) ==
    IF tier_results = <<>> THEN st
    ELSE LET result == Head(tier_results)
             fdc_id == result.fdcId
             st2 == IF fdc_id /= None /\ fdc_id /= 0 /\ fdc_id \notin st.seen_fdc_ids
                    THEN [all_results |-> Append(st.all_results,
                                                 [result EXCEPT !.search_tier = tier]),
                          seen_fdc_ids |-> st.seen_fdc_ids \cup {fdc_id}]
                    ELSE st
         IN  merge_tier(Tail(tier_results), tier, st2)

\* scoring_tool.py lines 148-149: the position penalty
position_penalty(position) == position * 10

\* scoring_tool._score_relevance_advanced: the base score, the position
\* penalty and the data type priority; text_score stands for the bonuses and
\* penalties computed from the description and the category (lines 151-216
\* and 231-243), which depend on the item and the query alone
_score_relevance_advanced(food, position) ==
    1000 - position_penalty(position) + food.text_score
    + (IF food.dataType = "Foundation" THEN 100
       ELSE IF food.dataType = "SR Legacy" THEN 50
       ELSE IF food.dataType = "Survey (FNDDS)" THEN 25
       ELSE IF food.dataType = "Branded" THEN 0 - 50
       ELSE 0)

\* lines 283-296: with an ingredient, the stable sort by descending relevance
\* score; without, the sort by (tier, fdcId); the first 80 in both cases
rank_tier_results(all_results, with_ingredient) ==
    IF with_ingredient
    THEN take(sort_desc(all_results,
                        [i \in 1..Len(all_results) |->
                            _score_relevance_advanced(all_results[i], i - 1)]), 80)
    ELSE take(sort_desc(all_results,
                        [i \in 1..Len(all_results) |->
                            0 - (all_results[i].search_tier * 1000 + all_results[i].fdcId)]),
              80)

\* the data_type_filter argument of the client.search_food call of the tier
\* (lines 246, 255, 264, 273); "" is None
tier_data_type_filter(tier) ==
    IF tier = 1 THEN "Foundation,SR Legacy"
    ELSE IF tier = 2 THEN "Survey (FNDDS)"
    ELSE IF tier = 3 THEN "Branded"
    ELSE ""

\* search_food, lines 39-42: the dataType parameter of the request
search_food_dataType(data_type_filter) ==
    IF data_type_filter /= "" THEN data_type_filter ELSE "Foundation,SR Legacy"

\* a data type the catalog sends for the dataType parameter of the request
\* of the tier
TierDataTypes(tier) ==
    IF tier = 1 THEN {"Foundation"}
    ELSE IF tier = 2 THEN {"Survey (FNDDS)"}
    ELSE IF tier = 3 THEN {"Branded"}
    ELSE {"SR Legacy"}

\* an item of a tier response: the fdcId may be missing (None)
TierItems(tier) ==
    [fdcId : FdcIds \cup {None}, dataType : TierDataTypes(tier), text_score : {0, 300},
     search_tier : {0}]

\* what client.search_food returns for one tier, the same item several times
\* included
TierResponses(tier) == SeqsUpTo(TierItems(tier), MaxTierLen)

\* no comprehensive search in progress; origin: the ids taken, each with its
\* index in the result list of the tier it was taken from; penalties: the
\* position penalty the ranking applied to each id
NoTierSearch ==
    [tier |-> 0, with_ingredient |-> FALSE, all_results |-> <<>>, seen_fdc_ids |-> {},
     offered |-> {}, requested |-> {}, origin |-> {}, penalties |-> {}, returned |-> <<>>]

(***************************************************************************)
(* verify_thresholds.py                                                    *)
(***************************************************************************)
\* verify_thresholds.py, lines 32-39: the flag the script expects for the
\* nutritional_similarity_score column of a row (an empty cell counts as 0)
verify_thresholds_expected(score) ==
    LET score_val == IF score = None THEN 0 ELSE score
    IN  IF score_val >= 90 THEN "HIGH_CONFIDENCE"
        ELSE IF score_val >= 80 THEN "MID_CONFIDENCE"
        ELSE "LOW_CONFIDENCE"

(***************************************************************************)
(* orchestrator_enhanced.py : EnhancedNutritionFetchOrchestrator           *)
(***************************************************************************)
VARIABLES
    ingredients,            \* the list handed to process_ingredients
    idx,                    \* loop position of process_ingredients (1-based, 0 before)
    results,                \* process_ingredients: results
    failed,                 \* process_ingredients: failed
    stats,                  \* self.stats
    pc,                     \* position of the control flow
    ret,                    \* outcome of the last fetch_nutrition_for_ingredient call
    ingredient,             \* its argument
    result_metadata,        \* locals of fetch_nutrition_for_ingredient ...
    attempt,
    previous_queries,
    attempt_info,
    search_query,
    search_results,
    verified_results,
    best_semantic_score,
    flag,
    mapping_status,
    nutritional_threshold,
    extraction_start,       \* TRUE when the local extraction_start is bound
    semantic_score_cache,   \* semantic_verification_tool._semantic_score_cache
    intent_cache,           \* cache_tool._cache
    llm_client,             \* _get_llm_client() returns a client (OPENAI_API_KEY set)
    calls,                  \* <<attempt, service, result>>: the service calls of the
                            \* attempt in progress (of the last one between attempts)
    search_calls,           \* multi-tier searches issued by that fetch
    api_client,             \* a USDAApiClient and the call in progress on it
    tier_search,            \* a search_usda_food_multi_tier_comprehensive call
    mapping_lookup,         \* a search_mappings call on a curated mapping file
    llm_exchange,           \* the requests of a function that asks the LLM for JSON
    intent_store            \* cache_tool and the threads saving intents in it

orchestrator_vars ==
    <<ingredients, idx, results, failed, stats, pc, ret, ingredient,
      result_metadata, attempt, previous_queries, attempt_info, search_query,
      search_results, verified_results, best_semantic_score, flag,
      mapping_status, nutritional_threshold,
      extraction_start, semantic_score_cache, intent_cache, llm_client, calls, search_calls>>

tool_vars == <<api_client, tier_search, mapping_lookup, llm_exchange, intent_store>>

\* the tools a step on one of them leaves alone
but_api_client == <<tier_search, mapping_lookup, llm_exchange, intent_store>>
but_tier_search == <<api_client, mapping_lookup, llm_exchange, intent_store>>
but_mapping_lookup == <<api_client, tier_search, llm_exchange, intent_store>>
but_llm_exchange == <<api_client, tier_search, mapping_lookup, intent_store>>
but_intent_store == <<api_client, tier_search, mapping_lookup, llm_exchange>>

vars == <<orchestrator_vars, tool_vars>>

locals == <<result_metadata, attempt, previous_queries, attempt_info, search_query,
            search_results, verified_results, best_semantic_score, flag,
            mapping_status, nutritional_threshold, extraction_start>>

process_vars == <<ingredients, idx, results, failed>>

max_retries == 2

\* lines 88-125: result_metadata as created at the start of the call
new_result_metadata ==
    [flag |-> "SUCCESS", mapping_status |-> "", semantic_match_score |-> None,
     nutritional_similarity_score |-> None, retry_attempts |-> 0,
     search_queries_used |-> <<>>, attempt_details |-> <<>>]

\* the record slot of a call that produced no record
NoRecord == [ingredient |-> "", fdc_id |-> None, source |-> "None", flag |-> "",
             mapping_status |-> "", semantic_match_score |-> None,
             nutritional_similarity_score |-> None, retry_attempts |-> 0,
             search_queries_used |-> "", standardized_nutrients |-> EmptyDict,
             debug |-> new_result_metadata]

Running == [kind |-> "running", record |-> NoRecord]
Raised == [kind |-> "raised", record |-> NoRecord]
Returned(record) == [kind |-> "returned", record |-> record]

\* _create_failed_result
_create_failed_result(ing, metadata) ==
    [ingredient |-> ing, fdc_id |-> None, source |-> "None",
     flag |-> metadata.flag, mapping_status |-> metadata.mapping_status,
     semantic_match_score |-> metadata.semantic_match_score,
     nutritional_similarity_score |-> metadata.nutritional_similarity_score,
     retry_attempts |-> metadata.retry_attempts,
     search_queries_used |-> join(", ", metadata.search_queries_used),
     standardized_nutrients |-> EmptyDict,
     debug |-> metadata]

\* curated_result with a defect: the scores are read from result_metadata
\* instead of being set to 100
curated_result_scores_from_metadata(ing, nutrition_data, metadata) ==
    [ingredient |-> ing, fdc_id |-> nutrition_data.fdc_id, source |-> "curated_mapping",
     flag |-> "HIGH_CONFIDENCE", mapping_status |-> "curated_mapping",
     semantic_match_score |-> metadata.semantic_match_score,
     nutritional_similarity_score |-> metadata.nutritional_similarity_score,
     retry_attempts |-> 0, search_queries_used |-> "",
     standardized_nutrients |-> nutrition_data.standardized_nutrients,
     debug |-> metadata]

\* lines 150-159: the record of the curated fast path (the key
\* search_queries_used is not set on this path)
curated_result(ing, nutrition_data, metadata) ==
    [ingredient |-> ing, fdc_id |-> nutrition_data.fdc_id, source |-> "curated_mapping",
     flag |-> "HIGH_CONFIDENCE", mapping_status |-> "curated_mapping",
     semantic_match_score |-> 100, nutritional_similarity_score |-> 100,
     retry_attempts |-> 0, search_queries_used |-> "",
     standardized_nutrients |-> nutrition_data.standardized_nutrients,
     debug |-> metadata]

\* lines 441-452 and 571-582: the record of an accepted search match
search_result(ing, nutrition_data, flag_, status, semantic, nutritional, attempt_, metadata) ==
    [ingredient |-> ing, fdc_id |-> nutrition_data.fdc_id, source |-> "search",
     flag |-> flag_, mapping_status |-> status,
     semantic_match_score |-> semantic, nutritional_similarity_score |-> nutritional,
     retry_attempts |-> attempt_,
     search_queries_used |-> join(", ", metadata.search_queries_used),
     standardized_nutrients |-> nutrition_data.standardized_nutrients,
     debug |-> metadata]

\* semantic_band with a defect: direct mapping starts above 90
semantic_band_direct_above_90(score) ==
    IF score > 90 THEN "direct"
    ELSE IF score >= 80 THEN "nutritional_80"
    ELSE IF score >= 65 THEN "nutritional_90"
    ELSE "too_low"

\* semantic_band with a defect: the lowest band starts below 60
semantic_band_low_below_60(score) ==
    IF score >= 90 THEN "direct"
    ELSE IF score >= 80 THEN "nutritional_80"
    ELSE IF score >= 60 THEN "nutritional_90"
    ELSE "too_low"

\* lines 317-361: the branch taken on the best semantic score
semantic_band(score) ==
    IF score >= 90 THEN "direct"
    ELSE IF score >= 80 THEN "nutritional_80"
    ELSE IF score >= 65 THEN "nutritional_90"
    ELSE "too_low"

\* nutritional_flag with a defect: HIGH_CONFIDENCE on the nutritional score alone
nutritional_flag_ignores_semantic(semantic, nutrition) ==
    IF nutrition >= 90
    THEN [flag |-> "HIGH_CONFIDENCE", mapping_status |-> "search_verified_high"]
    ELSE IF nutrition >= 80
    THEN [flag |-> "MID_CONFIDENCE", mapping_status |-> "search_verified_mid"]
    ELSE [flag |-> "LOW_CONFIDENCE", mapping_status |-> "search_low_confidence"]

\* nutritional_flag with a defect: MID_CONFIDENCE starts at 85
nutritional_flag_mid_from_85(semantic, nutrition) ==
    IF nutrition >= 90
    THEN (IF semantic >= 80
          THEN [flag |-> "HIGH_CONFIDENCE", mapping_status |-> "search_verified_high"]
          ELSE [flag |-> "MID_CONFIDENCE", mapping_status |-> "search_verified_mid_semantic_low"])
    ELSE IF nutrition >= 85
    THEN [flag |-> "MID_CONFIDENCE", mapping_status |-> "search_verified_mid"]
    ELSE [flag |-> "LOW_CONFIDENCE", mapping_status |-> "search_low_confidence"]

\* lines 411-424: flag and mapping_status of a match that passed the threshold
nutritional_flag(semantic, nutrition) ==
    IF nutrition >= 90
    THEN (IF semantic >= 80
          THEN [flag |-> "HIGH_CONFIDENCE", mapping_status |-> "search_verified_high"]
          ELSE [flag |-> "MID_CONFIDENCE", mapping_status |-> "search_verified_mid_semantic_low"])
    ELSE IF nutrition >= 80
    THEN [flag |-> "MID_CONFIDENCE", mapping_status |-> "search_verified_mid"]
    ELSE [flag |-> "LOW_CONFIDENCE", mapping_status |-> "search_low_confidence"]

\* the value of attempt_info outside an attempt
NoAttempt == [attempt |-> 0, query |-> "", success |-> FALSE]

\* the orchestrator after construction, about to process one of the lists
OrchestratorInitOn(lists) ==
    /\ ingredients \in lists
    /\ idx = 0
    /\ results = <<>>
    /\ failed = <<>>
    /\ stats = [total |-> 0, successful |-> 0, failed |-> 0, from_mappings |-> 0,
                from_search |-> 0, no_mapping_found |-> 0]
    /\ pc = "init"
    /\ ret = Running
    /\ ingredient = ""
    /\ result_metadata = new_result_metadata
    /\ attempt = 0
    /\ previous_queries = <<>>
    /\ attempt_info = NoAttempt
    /\ search_query = ""
    /\ search_results = <<>>
    /\ verified_results = <<>>
    /\ best_semantic_score = 0
    /\ flag = ""
    /\ mapping_status = ""
    /\ nutritional_threshold = 80
    /\ extraction_start = FALSE
    /\ semantic_score_cache = EmptyDict
    /\ intent_cache \in InitialIntentCaches
    /\ llm_client \in BOOLEAN
    /\ calls = {}
    /\ search_calls = 0

OrchestratorInit == OrchestratorInitOn(InputLists)

\* the pipeline runs; no direct call of the catalog tools is in progress
Init ==
    /\ OrchestratorInit
    /\ api_client = NewClient
    /\ tier_search = NoTierSearch
    /\ mapping_lookup = NoLookup
    /\ llm_exchange = NoExchange
    /\ intent_store = NoStore

\* The locals of one attempt are dead once the attempt is over: the loop body
\* assigns each of them again before it reads it.  They go back to their
\* initial values.
ClearAttempt ==
    /\ attempt_info' = NoAttempt
    /\ search_query' = ""
    /\ search_results' = <<>>
    /\ verified_results' = <<>>
    /\ best_semantic_score' = 0
    /\ flag' = ""
    /\ mapping_status' = ""
    /\ nutritional_threshold' = 80

\* `continue` with an attempt left: the loop moves to the next attempt
NextAttempt(metadata, queries, started) ==
    /\ pc' = "plan"
    /\ attempt' = attempt + 1
    /\ result_metadata' = metadata
    /\ previous_queries' = queries
    /\ extraction_start' = started
    /\ ClearAttempt
    /\ ret' = Running
    /\ UNCHANGED <<results, failed, stats>>

\* lines 674-699: fetch_nutrition_for_ingredient(ing) is over with `outcome`
\* (counted is self.stats as the call left it) and process_ingredients takes
\* the outcome into results / failed; the locals of the call are gone
Return(ing, outcome, counted) ==
    /\ pc' = "loop"
    /\ ret' = outcome
    /\ IF outcome.kind = "raised"
       THEN /\ failed' = Append(failed, ing)
            /\ stats' = [counted EXCEPT !.failed = @ + 1]
            /\ UNCHANGED results
       ELSE IF outcome.record.flag \in {"HIGH_CONFIDENCE", "MID_CONFIDENCE"}
       THEN /\ results' = Append(results, outcome.record)
            /\ stats' = [counted EXCEPT !.successful = @ + 1]
            /\ UNCHANGED failed
       ELSE /\ results' = Append(results, outcome.record)
            /\ failed' = Append(failed, ing)
            /\ stats' = [counted EXCEPT !.failed = @ + 1]
    /\ result_metadata' = new_result_metadata
    /\ attempt' = 0
    /\ previous_queries' = <<>>
    /\ extraction_start' = FALSE
    /\ ClearAttempt

\* return self._create_failed_result(result_metadata) after counting the failure
ReturnFailed(metadata) ==
    Return(ingredient, Returned(_create_failed_result(ingredient, metadata)),
           [stats EXCEPT !.no_mapping_found = @ + 1])

\* Exhausted with a defect: the flag of result_metadata is left as it is
Exhausted_keeps_flag(metadata) ==
    LET details == IF Len(metadata.attempt_details) < max_retries
                   THEN Append(metadata.attempt_details, attempt_info)
                   ELSE metadata.attempt_details
    IN  ReturnFailed([metadata EXCEPT !.mapping_status = "all_retries_exhausted",
                                      !.attempt_details = details])

\* lines 593-607: the loop is used up without a return
Exhausted(metadata) ==
    LET details == IF Len(metadata.attempt_details) < max_retries
                   THEN Append(metadata.attempt_details, attempt_info)
                   ELSE metadata.attempt_details
    IN  ReturnFailed([metadata EXCEPT !.flag = "NO_MAPPING_FOUND",
                                      !.mapping_status = "all_retries_exhausted",
                                      !.attempt_details = details])

\* the loop body ends (or `continue`): the next attempt, or the code after the loop
Continue(metadata, queries, started) ==
    IF attempt < max_retries THEN NextAttempt(metadata, queries, started)
    ELSE Exhausted(metadata)

\* process_ingredients, lines 657-669
StartProcessing ==
    /\ pc = "init"
    /\ pc' = "loop"
    /\ stats' = [stats EXCEPT !.total = Len(ingredients)]
    /\ UNCHANGED <<process_vars, ret, ingredient, locals, semantic_score_cache,
                   intent_cache, llm_client, calls, search_calls, tool_vars>>

\* the call-log entries of an extraction: extract_nutrition_data returns a
\* (truthy) dict for every detail record, lines 43-45 only warn when the
\* foodNutrients list is empty or missing
extract_log(a, food_data) ==
    {<<a, "extract_ok", food_data.fdcId>>} \cup
    (IF food_data.foodNutrients = <<>> THEN {<<a, "extract_empty", food_data.fdcId>>}
     ELSE {})

\* lines 671-675 and 76-172: the loop takes the next ingredient and calls
\* fetch_nutrition_for_ingredient, which looks the ingredient up in the curated
\* store and, on a hit, fetches and extracts the detail record
CuratedLookup ==
    /\ pc = "loop"
    /\ idx < Len(ingredients)
    /\ idx' = idx + 1
    /\ ingredient' = ingredients[idx + 1]
    /\ search_calls' = 0
    /\ LET ing == ingredients[idx + 1]
           mapping == search_mappings(ing)
       IN  IF mapping /= None
           THEN \E food_data \in DetailResponses(mapping) :
                   /\ calls' = {<<0, "details", mapping>>} \cup
                               (IF food_data.none THEN {} ELSE extract_log(0, food_data))
                   /\ IF ~food_data.none
                      THEN Return(ing,
                                  Returned(curated_result(ing, extract_nutrition_data(food_data),
                                                          new_result_metadata)),
                                  [stats EXCEPT !.from_mappings = @ + 1])
                      ELSE NextAttempt(new_result_metadata, <<>>, TRUE)
           ELSE /\ calls' = {}
                /\ NextAttempt(new_result_metadata, <<>>, FALSE)
    /\ UNCHANGED <<ingredients, semantic_score_cache, intent_cache, llm_client, tool_vars>>

\* lines 174-206: the search strategy of the attempt
Plan ==
    /\ pc = "plan"
    /\ \E llm \in IntentLLMResponses :
          LET cached == get_cached_search_intent(intent_cache, ingredient)
              generated == generate_search_intent(ingredient, llm_client, llm)
              intent == IF attempt = 1
                        THEN (IF cached /= NoIntent THEN cached ELSE generated)
                        ELSE generate_retry_search_strategy(ingredient, previous_queries,
                                                            generated)
              asked == attempt /= 1 \/ cached = NoIntent
              query == IF intent /= NoIntent THEN intent ELSE ingredient
          IN  /\ intent_cache' = IF attempt = 1 /\ cached = NoIntent /\ generated /= NoIntent
                                 THEN save_search_intent_cache(intent_cache, ingredient, generated)
                                 ELSE intent_cache
              /\ calls' = IF asked THEN {<<attempt, "intent_llm", 0>>} ELSE {}
              /\ search_query' = query
              /\ result_metadata' = [result_metadata EXCEPT
                                        !.retry_attempts = attempt,
                                        !.search_queries_used = Append(@, query)]
              /\ attempt_info' = [attempt |-> attempt, query |-> query, success |-> FALSE]
    /\ pc' = "search"
    /\ UNCHANGED <<process_vars, stats, ret, ingredient, attempt, previous_queries,
                   search_results, verified_results, best_semantic_score, flag,
                   mapping_status, nutritional_threshold, extraction_start,
                   semantic_score_cache, llm_client, search_calls, tool_vars>>

\* lines 208-245: the comprehensive multi-tier search
Search ==
    /\ pc = "search"
    /\ search_calls' = search_calls + 1
    /\ \E response \in SearchResponses :
          /\ calls' = calls \cup {<<attempt, "search", Len(response)>>}
          /\ IF response = <<>>
             THEN LET listed == [result_metadata EXCEPT
                                    !.attempt_details = Append(@, attempt_info)]
                  IN  IF attempt < max_retries
                      THEN NextAttempt(listed, previous_queries, extraction_start)
                      ELSE ReturnFailed([listed EXCEPT
                                            !.flag = "NO_MAPPING_FOUND",
                                            !.mapping_status = "no_search_results"])
             ELSE /\ pc' = "semantic"
                  /\ search_results' = response
                  /\ UNCHANGED <<results, failed, stats, ret, result_metadata, attempt,
                                 previous_queries, attempt_info, search_query,
                                 verified_results, best_semantic_score, flag,
                                 mapping_status, nutritional_threshold, extraction_start>>
    /\ UNCHANGED <<ingredients, idx, ingredient, semantic_score_cache, intent_cache,
                   llm_client, tool_vars>>

\* the default with a defect: a missing score reads as 100
score_or_100(score) == IF score = None THEN 100 ELSE score

\* `x.get("semantic_match_score", 0)` and its nutritional twin: the modelled
\* candidates always carry the key, with None when the code left it unset
score_or_0(score) == IF score = None THEN 0 ELSE score

\* lines 262-361: semantic verification and the branch on the best score
Semantic ==
    /\ pc = "semantic"
    /\ \E llm \in SemanticLLMResponses :
          LET verified == verify_semantic_match(ingredient, search_results, 3,
                                                llm_client, llm, semantic_score_cache)
              best == score_or_0(verified.results[1].semantic_match_score)
              band == semantic_band(best)
              listed == [result_metadata EXCEPT !.attempt_details = Append(@, attempt_info)]
          IN  /\ semantic_score_cache' = verified.cache
              /\ IF verified.results = <<>>
                 THEN /\ calls' = calls \cup {<<attempt, "semantic", None>>}
                      /\ IF attempt < max_retries
                         THEN NextAttempt(listed, previous_queries, extraction_start)
                         ELSE ReturnFailed([listed EXCEPT
                                               !.flag = "NO_MAPPING_FOUND",
                                               !.mapping_status = "semantic_mismatch"])
                 ELSE /\ calls' = calls \cup {<<attempt, "semantic", best>>}
                      /\ IF band = "too_low"
                         THEN LET final == [listed EXCEPT
                                               !.flag = "NO_MAPPING_FOUND",
                                               !.mapping_status = "semantic_score_too_low",
                                               !.semantic_match_score = best]
                              IN  IF attempt < max_retries
                                  THEN NextAttempt(final,
                                                   Append(previous_queries, search_query),
                                                   extraction_start)
                                  ELSE ReturnFailed(final)
                         ELSE /\ pc' = IF band = "direct" THEN "extract" ELSE "nutritional"
                              /\ verified_results' = verified.results
                              /\ best_semantic_score' = best
                              /\ flag' = IF band = "direct" THEN "HIGH_CONFIDENCE" ELSE ""
                              /\ mapping_status' = IF band = "direct"
                                                   THEN "search_verified_semantic_high"
                                                   ELSE ""
                              /\ nutritional_threshold' =
                                    IF band = "nutritional_90" THEN 90 ELSE 80
                              /\ search_results' = <<>>
                              /\ UNCHANGED <<results, failed, stats, ret, result_metadata,
                                             attempt, previous_queries, attempt_info,
                                             search_query, extraction_start>>
    /\ UNCHANGED <<ingredients, idx, ingredient, intent_cache, llm_client, search_calls,
                   tool_vars>>

\* lines 387-493: the threshold decision on the best nutritional match, the
\* detail fetch of that match and the record built from it
Decide(similarity_results) ==
    LET best_match == similarity_results[1]
        best_nutrition_score == score_or_0(best_match.nutritional_similarity_score)
        decided == nutritional_flag(best_semantic_score, best_nutrition_score)
        gate == <<attempt, "gate", best_nutrition_score>>
    IN  IF best_nutrition_score >= nutritional_threshold
        THEN \E food_data \in DetailResponses(best_match.fdc_id) :
                IF ~food_data.none
                THEN /\ calls' = calls \cup {gate, <<attempt, "details", best_match.fdc_id>>}
                                      \cup extract_log(attempt, food_data)
                     /\ IF ~extraction_start
                        THEN \* line 436 reads the local extraction_start, which is unbound
                             Return(ingredient, Raised, stats)
                        ELSE LET info == [attempt_info EXCEPT !.success = TRUE]
                                 metadata == [result_metadata EXCEPT
                                                 !.attempt_details = Append(@, info)]
                             IN  Return(ingredient,
                                        Returned(search_result(ingredient,
                                            extract_nutrition_data(food_data),
                                            decided.flag, decided.mapping_status,
                                            best_semantic_score, best_nutrition_score,
                                            attempt, metadata)),
                                        [stats EXCEPT !.from_search = @ + 1])
                ELSE LET final == [result_metadata EXCEPT
                                      !.flag = "NO_MAPPING_FOUND",
                                      !.mapping_status = "food_data_not_found",
                                      !.semantic_match_score = best_semantic_score,
                                      !.nutritional_similarity_score = best_nutrition_score]
                     IN  /\ calls' = calls \cup {gate, <<attempt, "details", best_match.fdc_id>>}
                         /\ IF attempt < max_retries
                            THEN NextAttempt(final, Append(previous_queries, search_query),
                                             extraction_start)
                            ELSE ReturnFailed(final)
        ELSE \* no else branch in the code: the loop body ends
             /\ calls' = calls \cup {gate}
             /\ Continue(result_metadata, previous_queries, extraction_start)

\* lines 364-493: the nutritional similarity gate and the decision on its result
Nutritional ==
    /\ pc = "nutritional"
    /\ \E fetched \in SUBSET (1..Len(verified_results)) :
       \E llm \in (IF llm_client /\ fetched /= {} THEN SimilarityLLMResponses
                   ELSE {[ok |-> FALSE, items |-> <<>>]}) :
       \E fetched_again \in (IF llm_client /\ fetched /= {} /\ ~llm.ok
                             THEN SUBSET (1..Len(verified_results)) ELSE {{}}) :
          LET similarity_results ==
                  calculate_nutritional_similarity_score(verified_results, 3,
                      llm_client, fetched, llm, fetched_again)
              listed == [result_metadata EXCEPT !.attempt_details = Append(@, attempt_info)]
          IN  IF similarity_results = <<>>
              THEN /\ calls' = calls \cup {<<attempt, "gate", None>>}
                   /\ IF attempt < max_retries
                      THEN NextAttempt(listed, previous_queries, extraction_start)
                      ELSE ReturnFailed([listed EXCEPT
                                            !.flag = "NO_MAPPING_FOUND",
                                            !.mapping_status = "nutritional_mismatch",
                                            !.semantic_match_score = best_semantic_score])
              ELSE Decide(similarity_results)
    /\ UNCHANGED <<ingredients, idx, ingredient, semantic_score_cache, intent_cache,
                   llm_client, search_calls, tool_vars>>

\* lines 528-544: the position of verified_results whose detail record is used:
\* the best match, else the first other candidate with a different id whose
\* fetch returns data; 0 when every fetch fails.  fetched is the set of
\* positions whose get_usda_food_details call returns data.
fetch_with_fallback(verified, fetched) ==
    LET fdc_id == verified[1].fdcId
        alternatives == {p \in 2..Len(verified) :
                            /\ verified[p].fdcId /= None
                            /\ verified[p].fdcId /= fdc_id
                            /\ p \in fetched}
    IN  IF 1 \in fetched THEN 1
        ELSE IF alternatives /= {}
             THEN CHOOSE p \in alternatives : \A q \in alternatives : p <= q
        ELSE 0

\* lines 530-544: the ids get_usda_food_details is called with: the best
\* match, and when its fetch fails the other candidates with a different id,
\* in the order of verified_results, up to the first whose fetch returns data
detail_fetches(verified, fetched) ==
    LET used == fetch_with_fallback(verified, fetched)
        last == IF used = 0 THEN Len(verified) ELSE used
    IN  {verified[p].fdcId : p \in {q \in 1..last :
            q = 1 \/ (verified[q].fdcId /= None /\ verified[q].fdcId /= verified[1].fdcId)}}

\* lines 495-591: direct mapping on a semantic score >= 90
Extract ==
    /\ pc = "extract"
    /\ \E fetched \in SUBSET (1..Len(verified_results)), fn \in FoodNutrientLists :
          LET used == fetch_with_fallback(verified_results, fetched)
          IN  IF used /= 0
              THEN LET food_data == [none |-> FALSE, fdcId |-> verified_results[used].fdcId,
                                     foodNutrients |-> fn]
                       info == [attempt_info EXCEPT !.success = TRUE]
                       metadata == [result_metadata EXCEPT
                                       !.attempt_details = Append(@, info)]
                   IN  /\ calls' = calls \cup
                                   {<<attempt, "details", f>> :
                                       f \in detail_fetches(verified_results, fetched)} \cup
                                   extract_log(attempt, food_data)
                       /\ Return(ingredient,
                                 Returned(search_result(ingredient,
                                     extract_nutrition_data(food_data), flag, mapping_status,
                                     best_semantic_score, None, attempt, metadata)),
                                 [stats EXCEPT !.from_search = @ + 1])
              ELSE /\ calls' = calls \cup
                                   {<<attempt, "details", f>> :
                                       f \in detail_fetches(verified_results, fetched)}
                   /\ IF attempt < max_retries
                      THEN NextAttempt(result_metadata,
                                       Append(previous_queries, search_query), TRUE)
                      ELSE ReturnFailed([result_metadata EXCEPT
                                            !.flag = "NO_MAPPING_FOUND",
                                            !.mapping_status = "food_data_not_found",
                                            !.semantic_match_score = best_semantic_score])
    /\ UNCHANGED <<ingredients, idx, ingredient, semantic_score_cache, intent_cache,
                   llm_client, search_calls, tool_vars>>

\* process_ingredients, lines 707-736: the loop is over
Finish ==
    /\ pc = "loop"
    /\ idx = Len(ingredients)
    /\ pc' = "done"
    /\ UNCHANGED <<process_vars, stats, ret, ingredient, locals, semantic_score_cache,
                   intent_cache, llm_client, calls, search_calls, tool_vars>>

Next ==
    \/ StartProcessing
    \/ CuratedLookup
    \/ Plan
    \/ Search
    \/ Semantic
    \/ Nutritional
    \/ Extract
    \/ Finish

Spec == Init /\ [][Next]_vars

(***************************************************************************)
(* USDAApiClient: calls of search_food and get_food_details on one client  *)
(***************************************************************************)
\* a caller invokes search_food or get_food_details
ClientCall ==
    /\ api_client.pc = "idle"
    /\ api_client.calls < MaxClientCalls
    /\ \E op \in {"search", "details"} :
          api_client' = [api_client EXCEPT !.pc = "request", !.op = op, !.attempt = 0,
                                           !.calls = @ + 1, !.ret = ClientRunning]
    /\ UNCHANGED <<orchestrator_vars, but_api_client>>

\* one iteration of `for attempt in range(self.max_retries)`: the HTTP
\* request is issued, its outcome handled, and the sleeps of the iteration
\* are slept
ClientRequest ==
    /\ api_client.pc = "request"
    /\ \E outcome \in HttpOutcomes :
          LET step == retry_iteration(api_client.op, api_client.attempt, outcome)
          IN  api_client' = [api_client EXCEPT
                                !.requests = @ + 1,
                                !.last = outcome,
                                !.slept = step.slept,
                                !.ret = step.ret,
                                !.pc = IF step.over THEN "idle" ELSE "request",
                                !.attempt = IF step.over THEN 0 ELSE @ + 1]
    /\ UNCHANGED <<orchestrator_vars, but_api_client>>

\* the pipeline is idle while the client is exercised
OrchestratorIdle ==
    /\ OrchestratorInit
    /\ ingredients = <<"rice">>
    /\ ~llm_client

ClientInit ==
    /\ OrchestratorIdle
    /\ api_client = NewClient
    /\ tier_search = NoTierSearch
    /\ mapping_lookup = NoLookup
    /\ llm_exchange = NoExchange
    /\ intent_store = NoStore

ClientNext ==
    \/ ClientCall
    \/ ClientRequest

ClientSpec == ClientInit /\ [][ClientNext]_vars

(***************************************************************************)
(* search_usda_food_multi_tier_comprehensive                               *)
(***************************************************************************)
\* the function is called, with or without the ingredient argument
TierCall ==
    /\ tier_search.tier = 0
    /\ \E with_ingredient \in BOOLEAN :
          tier_search' = [NoTierSearch EXCEPT !.tier = 1,
                                              !.with_ingredient = with_ingredient]
    /\ UNCHANGED <<orchestrator_vars, but_tier_search>>

\* lines 246-279: the search of one tier and the merge of its results
TierSearch ==
    /\ tier_search.tier \in 1..4
    /\ \E tier_results \in TierResponses(tier_search.tier) :
          LET merged == merge_tier(tier_results, tier_search.tier,
                                   [all_results |-> tier_search.all_results,
                                    seen_fdc_ids |-> tier_search.seen_fdc_ids])
          IN  tier_search' = [tier_search EXCEPT
                                 !.tier = @ + 1,
                                 !.all_results = merged.all_results,
                                 !.seen_fdc_ids = merged.seen_fdc_ids,
                                 !.requested = @ \cup
                                     {<<tier_search.tier,
                                        search_food_dataType(
                                            tier_data_type_filter(tier_search.tier))>>},
                                 !.offered = @ \cup
                                     {<<tier_search.tier, tier_results[i].fdcId>> :
                                         i \in 1..Len(tier_results)},
                                 !.origin = @ \cup
                                     {<<fdc_id,
                                        (CHOOSE i \in 1..Len(tier_results) :
                                            /\ tier_results[i].fdcId = fdc_id
                                            /\ \A j \in 1..(i - 1) :
                                                  tier_results[j].fdcId /= fdc_id) - 1>> :
                                         fdc_id \in merged.seen_fdc_ids
                                                        \ tier_search.seen_fdc_ids}]
    /\ UNCHANGED <<orchestrator_vars, but_tier_search>>

\* lines 281-296: the merged results are ranked and returned
TierRank ==
    /\ tier_search.tier = 5
    /\ tier_search' = [tier_search EXCEPT
                          !.tier = 6,
                          !.returned = rank_tier_results(tier_search.all_results,
                                                         tier_search.with_ingredient),
                          !.penalties =
                              IF tier_search.with_ingredient
                              THEN {<<tier_search.all_results[i].fdcId,
                                      position_penalty(i - 1)>> :
                                       i \in 1..Len(tier_search.all_results)}
                              ELSE {},
                          !.all_results = <<>>,
                          !.seen_fdc_ids = {}]
    /\ UNCHANGED <<orchestrator_vars, but_tier_search>>

TierInit ==
    /\ OrchestratorIdle
    /\ api_client = NewClient
    /\ tier_search = NoTierSearch
    /\ mapping_lookup = NoLookup
    /\ llm_exchange = NoExchange
    /\ intent_store = NoStore

TierNext ==
    \/ TierCall
    \/ TierSearch
    \/ TierRank

TierSpec == TierInit /\ [][TierNext]_vars

(***************************************************************************)
(* mapping_tool.search_mappings on curated mapping files                   *)
(***************************************************************************)
\* search_mappings(ingredient, mappings) is called
SearchMappings ==
    /\ ~mapping_lookup.done
    /\ \E ing \in LookupIngredients :
          mapping_lookup' = [mapping_lookup EXCEPT
                                !.ingredient = ing,
                                !.matched_key = _fuzzy_match(ing, mapping_lookup.mappings),
                                !.entry = search_mappings_in(ing, mapping_lookup.mappings),
                                !.done = TRUE]
    /\ UNCHANGED <<orchestrator_vars, but_mapping_lookup>>

\* the caller drops the result; the store is ready for the next lookup
ForgetLookup ==
    /\ mapping_lookup.done
    /\ mapping_lookup' = [NoLookup EXCEPT !.mappings = mapping_lookup.mappings]
    /\ UNCHANGED <<orchestrator_vars, but_mapping_lookup>>

MappingInit ==
    /\ OrchestratorIdle
    /\ api_client = NewClient
    /\ tier_search = NoTierSearch
    /\ mapping_lookup \in {[NoLookup EXCEPT !.mappings = m] : m \in MappingStores}
    /\ llm_exchange = NoExchange
    /\ intent_store = NoStore

MappingNext ==
    \/ SearchMappings
    \/ ForgetLookup

MappingSpec == MappingInit /\ [][MappingNext]_vars

(***************************************************************************)
(* The LLM exchanges of the three functions that ask for JSON              *)
(***************************************************************************)
\* one of the functions is called; without a client it falls back at once
\* (llm_tool.py lines 71-72, semantic_verification_tool.py lines 74-77,
\* nutritional_similarity_tool.py lines 289-292)
LLMCall ==
    /\ llm_exchange.pc = "idle"
    /\ llm_exchange.calls < MaxLLMCalls
    /\ \E component \in LLMComponents, client_ok \in BOOLEAN :
       \E amounts \in (IF ~client_ok /\ component = "calculate_nutritional_similarity_score"
                       THEN SeqsUpTo(CandidateAmounts, MaxResults) ELSE {<<>>}) :
          LET then == IF client_ok THEN "" ELSE "fallback"
              gate == gate_fallback(component, then, amounts)
          IN  llm_exchange' = [llm_exchange EXCEPT
                                  !.pc = IF client_ok THEN "request" ELSE "idle",
                                  !.component = component,
                                  !.requests = <<>>, !.result = then,
                                  !.nutrients = gate.nutrients,
                                  !.fallback = gate.fallback,
                                  !.calls = @ + 1]
    /\ UNCHANGED <<orchestrator_vars, but_llm_exchange>>

\* the function issues a request and handles its outcome
LLMRequest ==
    /\ llm_exchange.pc = "request"
    /\ \E outcome \in LLMOutcomes :
       \E amounts \in (IF /\ llm_exchange.component = "calculate_nutritional_similarity_score"
                          /\ outcome /= "json"
                       THEN SeqsUpTo(CandidateAmounts, MaxResults) ELSE {<<>>}) :
          LET n == Len(llm_exchange.requests) + 1
              hint == n = 1 /\ first_request_hint(llm_exchange.component)
              then == after_llm_request(llm_exchange.component, n, outcome)
              gate == gate_fallback(llm_exchange.component, then, amounts)
          IN  llm_exchange' = [llm_exchange EXCEPT
                                  !.requests = Append(@, [hint |-> hint, outcome |-> outcome]),
                                  !.total = @ + 1,
                                  !.nutrients = gate.nutrients,
                                  !.fallback = gate.fallback,
                                  !.pc = IF then = "again" THEN "request" ELSE "idle",
                                  !.result = IF then = "again" THEN "" ELSE then]
    /\ UNCHANGED <<orchestrator_vars, but_llm_exchange>>

LLMInit ==
    /\ OrchestratorIdle
    /\ api_client = NewClient
    /\ tier_search = NoTierSearch
    /\ mapping_lookup = NoLookup
    /\ llm_exchange = NoExchange
    /\ intent_store = NoStore

LLMNext ==
    \/ LLMCall
    \/ LLMRequest

LLMSpec == LLMInit /\ [][LLMNext]_vars

(***************************************************************************)
(* Two threads in save_search_intent_cache                                 *)
(***************************************************************************)
LoadCache(t) ==
    /\ intent_store.pc[t] \in {"call", "read", "assign", "return"}
    /\ intent_store' = load_cache_step(intent_store, t)
    /\ UNCHANGED <<orchestrator_vars, but_intent_store>>

SaveSearchIntent(t) ==
    /\ intent_store.pc[t] \in {"set", "publish"}
    /\ intent_store' = save_intent_step(intent_store, t)
    /\ UNCHANGED <<orchestrator_vars, but_intent_store>>

SaveCache(t) ==
    /\ intent_store.pc[t] \in {"acquire", "write"}
    /\ intent_store.pc[t] = "acquire" => intent_store.lock = 0
    /\ intent_store' = save_cache_step(intent_store, t)
    /\ UNCHANGED <<orchestrator_vars, but_intent_store>>

\* both threads enter save_search_intent_cache; the cache file is empty or
\* holds an entry, and _cache is None or was loaded before
CacheInit ==
    /\ OrchestratorIdle
    /\ api_client = NewClient
    /\ tier_search = NoTierSearch
    /\ mapping_lookup = NoLookup
    /\ llm_exchange = NoExchange
    /\ \E file \in {EmptyDict, [k \in {"milk"} |-> "milk"]}, loaded \in {0, 3} :
          intent_store = [NoStore EXCEPT !.file = file, !.objs[3] = file, !.cache = loaded,
                                         !.pc = [t \in DOMAIN CacheSaves |-> "call"]]

CacheNext ==
    \E t \in DOMAIN CacheSaves :
        \/ LoadCache(t)
        \/ SaveSearchIntent(t)
        \/ SaveCache(t)

CacheSpec == CacheInit /\ [][CacheNext]_vars

(***************************************************************************)
(* The pipeline on an ingredient of the variant dictionary                 *)
(***************************************************************************)
VariantInit ==
    /\ OrchestratorInitOn(VariantInputLists)
    /\ api_client = NewClient
    /\ tier_search = NoTierSearch
    /\ mapping_lookup = NoLookup
    /\ llm_exchange = NoExchange
    /\ intent_store = NoStore

VariantSpec == VariantInit /\ [][Next]_vars

(***************************************************************************)
(* Properties of the match resolution pipeline                             *)
(***************************************************************************)
\* the Result Records process_ingredients has collected
Records == {results[i] : i \in 1..Len(results)}

\* the fetch of the current ingredient is over
CallOver == pc \in {"loop", "done"} /\ idx > 0

\* entries of the call log of the attempt
Logged(a, service) == {c \in calls : c[1] = a /\ c[2] = service}

\* C1: fetch_nutrition_for_ingredient returns exactly one Result Record and
\* never raises to its caller, along every path, so process_ingredients has
\* appended one record to results for every input it has handled.
C1_OneRecordNeverRaises ==
    /\ ret.kind /= "raised"
    /\ pc \in {"loop", "done"} => Len(results) = idx

C4_Banding(s, n) ==
    IF s >= 80 /\ n >= 90
    THEN [flag |-> "HIGH_CONFIDENCE", mapping_status |-> "search_verified_high"]
    ELSE IF s >= 80
    THEN [flag |-> "MID_CONFIDENCE", mapping_status |-> "search_verified_mid"]
    ELSE [flag |-> "MID_CONFIDENCE", mapping_status |-> "search_verified_mid_semantic_low"]

\* the scores C4 accepts
C4_Accepted(s, n) ==
    \/ s >= 80 /\ s < 90 /\ n >= 80
    \/ s >= 65 /\ s < 80 /\ n >= 90

\* C4: in an attempt after a curated miss whose best semantic score s is in
\* [65,90), whose best nutritional score is n and whose detail fetch succeeds,
\* the orchestrator emits an accepted record with the flag and mapping_status
\* of the band of (s, n) and with both scores in the record; for s in [65,80)
\* and n = 89 no record is accepted in that attempt.
C4_AcceptedByBanding ==
    [][(pc = "nutritional" /\ search_mappings(ingredient) = None) =>
          \A g \in {c \in calls' : c[1] = attempt /\ c[2] = "gate" /\ c[3] /= None} :
             LET s == best_semantic_score
                 n == g[3]
                 fetched == \E c \in calls' : c[1] = attempt /\ c[2] = "extract_ok"
             IN  /\ (C4_Accepted(s, n) /\ fetched) =>
                       /\ ret'.kind = "returned"
                       /\ ret'.record.source = "search"
                       /\ ret'.record.flag = C4_Banding(s, n).flag
                       /\ ret'.record.mapping_status = C4_Banding(s, n).mapping_status
                       /\ ret'.record.semantic_match_score = s
                       /\ ret'.record.nutritional_similarity_score = n
                 /\ (s < 80 /\ n = 89) =>
                       ~(ret'.kind = "returned" /\ ret'.record.fdc_id /= None)
      ]_vars

C7_AtMostTwoAttempts ==
    search_mappings(ingredient) = None =>
        /\ search_calls <= 2
        /\ attempt <= 2
        /\ CallOver => /\ ret.kind = "returned"
                       /\ ret.record.retry_attempts \in {1, 2}

\* C8: every Result Record with source curated_mapping has flag
\* HIGH_CONFIDENCE, semantic score 100, nutritional score 100 and
\* retry_attempts 0.
C8_CuratedRecord ==
    \A r \in Records :
        r.source = "curated_mapping" =>
            /\ r.flag = "HIGH_CONFIDENCE"
            /\ r.semantic_match_score = 100
            /\ r.nutritional_similarity_score = 100
            /\ r.retry_attempts = 0

\* a record of the curated fast path was collected
C8_Witness ==
    \E r \in Records : r.source = "curated_mapping" /\ r.fdc_id = CuratedF

\* C9: for any ingredient that has a curated entry mapping to id F, the
\* pipeline returns a record with fdc_id = F and source curated_mapping,
\* whatever the outcome of the detail fetch for F.
C9_CuratedEntryWins ==
    (CallOver /\ search_mappings(ingredient) /= None) =>
        /\ ret.kind = "returned"
        /\ ret.record.fdc_id = search_mappings(ingredient)
        /\ ret.record.source = "curated_mapping"

\* C10: every Result Record, the NO_MAPPING_FOUND records included, carries
\* every canonical nutrient id as a key of its nutrient row.
C10_FullNutrientRow ==
    \A r \in Records : DOMAIN r.standardized_nutrients = get_all_nutrient_ids

\* every slot of a nutrient row is null (an empty row has no other slot)
AllNull(row) == \A k \in DOMAIN row : row[k] = NullNutrient

\* C11: a Result Record has all nutrients null if and only if its fdc_id is
\* null: no record with a non-null fdc_id carries an entirely null nutrient row.
C11_NullRowIffNullId ==
    \A r \in Records : AllNull(r.standardized_nutrients) <=> (r.fdc_id = None)

\* C12: whenever the detail fetch of the selected candidate returns nothing,
\* in the >= 90 branch or after the nutritional gate, every other semantically
\* verified candidate is fetched before the attempt is given up; only when all
\* of them fail does the orchestrator retry, and on the final attempt it emits
\* NO_MAPPING_FOUND with mapping_status food_data_not_found.
C12_FallbackBeforeRetry ==
    [][(/\ pc \in {"nutritional", "extract"}
        /\ \E c \in calls' : c[1] = attempt /\ c[2] = "details"
        /\ ~\E c \in calls' : c[1] = attempt /\ c[2] = "extract_ok") =>
          /\ \A i \in 1..Len(verified_results) :
                <<attempt, "details", verified_results[i].fdcId>> \in calls'
          /\ IF attempt < max_retries
             THEN pc' = "plan" /\ attempt' = attempt + 1
             ELSE /\ ret'.kind = "returned"
                  /\ ret'.record.flag = "NO_MAPPING_FOUND"
                  /\ ret'.record.mapping_status = "food_data_not_found"
      ]_vars

\* C13: a detail record whose foodNutrients list is empty is not accepted:
\* the call neither raises nor returns a record of that candidate.
C13_EmptyNutrientsNotAccepted ==
    \A c \in calls :
        (c[1] >= 1 /\ c[2] = "extract_empty") =>
            /\ ret.kind /= "raised"
            /\ ~(ret.kind = "returned" /\ ret.record.fdc_id = c[3])

\* the nutritional threshold that applies to a best semantic score in [65,90)
C14_Threshold(s) == IF s >= 80 THEN 80 ELSE 90

\* C14: when the nutritional gate has run in an attempt and the best
\* nutritional score is below the threshold of the attempt's semantic score,
\* the orchestrator retries if an attempt remains, and otherwise emits flag
\* NO_MAPPING_FOUND with mapping_status nutritional_mismatch.
C14_BelowThreshold ==
    \A g \in calls, s \in calls :
        (/\ g[2] = "gate" /\ g[3] /= None
         /\ s[2] = "semantic" /\ s[1] = g[1] /\ s[3] /= None
         /\ g[3] < C14_Threshold(s[3])) =>
            /\ g[1] < max_retries =>
                  pc = "plan" /\ attempt = g[1] + 1 /\ ret.kind = "running"
            /\ g[1] = max_retries =>
                  /\ CallOver
                  /\ ret.kind = "returned"
                  /\ ret.record.flag = "NO_MAPPING_FOUND"
                  /\ ret.record.mapping_status = "nutritional_mismatch"

\* C16: once a semantic score is recorded for a pair (lowercased ingredient,
\* fdc_id), every later verify_semantic_match invocation keeps that score for
\* the pair and reports it, whatever the LLM returns.
C16_RecordedScoreKept ==
    [][pc = "semantic" =>
          \A key \in DOMAIN semantic_score_cache :
             /\ key \in DOMAIN semantic_score_cache'
             /\ semantic_score_cache'[key] = semantic_score_cache[key]
             /\ \A i \in 1..Len(verified_results') :
                   semantic_cache_key(ingredient, verified_results'[i].fdcId) = key =>
                      verified_results'[i].semantic_match_score = semantic_score_cache[key]
      ]_vars

\* C17: for an ingredient that is in the intent cache, planning an attempt
\* (the first or a retry) never invokes generate_search_intent.
C17_CachedIntentNoLLM ==
    [][(pc = "plan" /\ get_cached_search_intent(intent_cache, ingredient) /= NoIntent) =>
          ~\E c \in calls' : c[1] = attempt /\ c[2] = "intent_llm"
      ]_vars

\* at most k candidates, in non-increasing order of semantic score
C20_TopKSorted(candidates, k) ==
    /\ Len(candidates) <= k
    /\ \A i \in 1..Len(candidates), j \in 1..Len(candidates) :
          i < j => score_or_0(candidates[i].semantic_match_score)
                      >= score_or_0(candidates[j].semantic_match_score)

\* C20: on every return path (LLM success, LLM unavailable, LLM error),
\* verify_semantic_match returns at most 3 candidates in non-increasing order
\* of semantic score, so the first one has the maximal score of those returned.
C20_VerifiedSortedOnEveryPath ==
    pc = "semantic" =>
        \A llm \in SemanticLLMResponses :
            C20_TopKSorted(verify_semantic_match(ingredient, search_results, 3, llm_client,
                                                 llm, semantic_score_cache).results, 3)

\* C15: search_usda_food_multi_tier_comprehensive returns each fdc_id at most
\* once, whatever the four tier responses hold, the same item in several
\* tiers included.
C15_EachIdAtMostOnce ==
    /\ \A i \in 1..Len(tier_search.all_results), j \in 1..Len(tier_search.all_results) :
          tier_search.all_results[i].fdcId = tier_search.all_results[j].fdcId => i = j
    /\ \A i \in 1..Len(tier_search.returned), j \in 1..Len(tier_search.returned) :
          tier_search.returned[i].fdcId = tier_search.returned[j].fdcId => i = j

\* the search has returned, tiers 1, 2 and 4 sent id 2, which is returned once
C15_Witness ==
    /\ tier_search.tier = 6
    /\ {<<1, 2>>, <<2, 2>>, <<4, 2>>} \subseteq tier_search.offered
    /\ Cardinality({i \in 1..Len(tier_search.returned) :
                       tier_search.returned[i].fdcId = 2}) = 1
    /\ Len(tier_search.returned) = 2

\* C18: search_food and get_food_details never raise to the caller: after
\* exhausted retries, or on a malformed catalog payload, search_food returns
\* an empty list and get_food_details returns null.
C18_ClientNeverRaises ==
    /\ api_client.ret.kind /= "raised"
    /\ (/\ api_client.pc = "idle"
        /\ api_client.calls > 0
        /\ \/ api_client.last.kind /= "json"
           \/ api_client.last.data.type /= "object") =>
           api_client.ret = IF api_client.op = "search" THEN ReturnedList(<<>>)
                            ELSE ReturnedNone

\* C19: between any two consecutive HTTP requests of one client, within one
\* call or across successive calls, at least rate_limit_delay is slept.
C19_DelayBetweenRequests ==
    [][(api_client'.requests = api_client.requests + 1 /\ api_client.requests > 0) =>
          api_client.slept >= rate_limit_delay
      ]_vars

\* the strings one pluralization adjustment away from s: a trailing "s" or
\* "es" added or removed, a trailing "y" exchanged with "ies"
C21_Pluralizations(s) ==
    {s \o "s", s \o "es"}
    \cup (IF endswith(s, "s") THEN {SubSeq(s, 1, Len(s) - 1)} ELSE {})
    \cup (IF endswith(s, "es") THEN {SubSeq(s, 1, Len(s) - 2)} ELSE {})
    \cup (IF endswith(s, "y") THEN {SubSeq(s, 1, Len(s) - 1) \o "ies"} ELSE {})
    \cup (IF endswith(s, "ies") THEN {SubSeq(s, 1, Len(s) - 3) \o "y"} ELSE {})

\* the strings obtained from s by exchanging one separator for another
C21_Separators(s) ==
    {replace(s, x, y) : x \in {" ", "_", "-"}, y \in {" ", "_", "-"}} \ {s}

\* C21: search_mappings returns an entry only when the entry's key is the
\* lowercased, trimmed ingredient or a pluralization or separator variant of
\* it; the exact key wins, a pluralization variant is preferred to a separator
\* variant, and without such a key the result is null.
C21_OnlyVariantKeys ==
    mapping_lookup.done =>
        LET il == strip(lower(mapping_lookup.ingredient))
            keys == DOMAIN mapping_lookup.mappings
            plural == C21_Pluralizations(il)
            separator == C21_Separators(il)
            key == mapping_lookup.matched_key
        IN  /\ mapping_lookup.entry /= None =>
                  /\ key \in keys \cap ({il} \cup plural \cup separator)
                  /\ mapping_lookup.entry = mapping_lookup.mappings[key]
            /\ il \in keys => key = il
            /\ (key \in separator /\ key \notin plural) => plural \cap keys = {}
            /\ ({il} \cup plural \cup separator) \cap keys = {} => mapping_lookup.entry = None

\* "a bs" looked up in a store holding "a b" and "a_bs": the singular is found
C21_Witness ==
    /\ mapping_lookup.done
    /\ mapping_lookup.ingredient = "a bs"
    /\ DOMAIN mapping_lookup.mappings = {"a b", "a_bs"}
    /\ mapping_lookup.matched_key = "a b"
    /\ mapping_lookup.entry = 17

\* C22: search_mappings finds the entry of key k whenever k differs from the
\* lowercased, trimmed ingredient by one pluralization adjustment (trailing
\* "s", trailing "es", y <-> ies, in either direction) or by an exchange of
\* separators among space, "_" and "-".
C22_FindsEveryVariant ==
    mapping_lookup.done =>
        LET il == strip(lower(mapping_lookup.ingredient))
            variants == C21_Pluralizations(il) \cup C21_Separators(il)
        IN  \A k \in DOMAIN mapping_lookup.mappings :
               k \in variants =>
                  /\ mapping_lookup.entry /= None
                  /\ DOMAIN mapping_lookup.mappings = {k} =>
                        mapping_lookup.entry = mapping_lookup.mappings[k]

\* C23: for every emitted row the flag is determined by the nutritional
\* similarity score alone: >= 90 gives HIGH_CONFIDENCE, [80,90) gives
\* MID_CONFIDENCE, a lower or missing score gives LOW_CONFIDENCE.
C23_FlagFromNutritionalScoreAlone ==
    \A r \in Records : r.flag = verify_thresholds_expected(r.nutritional_similarity_score)

\* the variants listed for the first dictionary key the ingredient contains
C24_Variants ==
    LET hit == {i \in 1..Len(variations) : contains(lower(ingredient), variations[i].key)}
    IN  IF hit = {} THEN <<>>
        ELSE variations[CHOOSE i \in hit : \A j \in hit : i <= j].variants

\* C24: when the first attempt for an ingredient that contains a variant
\* dictionary key ends on a best semantic score below 65, the query of the
\* second attempt is the first variant listed for the key that is not among
\* the queries used before, and the nutritional gate was not called in the
\* first attempt.
C24_RetryUsesFirstUnusedVariant ==
    [][(/\ pc = "plan" /\ attempt = 2
        /\ C24_Variants /= <<>>
        /\ \E c \in calls : c[1] = 1 /\ c[2] = "semantic" /\ c[3] /= None /\ c[3] < 65) =>
          /\ \E i \in 1..Len(C24_Variants) :
                /\ search_query' = C24_Variants[i]
                /\ ~in_list(C24_Variants[i], previous_queries)
                /\ \A j \in 1..(i - 1) : in_list(C24_Variants[j], previous_queries)
          /\ ~\E c \in calls : c[2] = "gate"
      ]_vars

\* the first query was "tzatziki", the first attempt ended below 65 and the
\* second attempt searches "tzatziki dip"
C24_Witness ==
    /\ pc = "search" /\ attempt = 2
    /\ ingredient = "tzatziki"
    /\ previous_queries = <<"tzatziki">>
    /\ search_query = "tzatziki dip"
    /\ result_metadata.mapping_status = "semantic_score_too_low"

\* C25: in the comprehensive multi-tier search the Tier 4 request carries no
\* data-type restriction, unlike Tier 1, which is restricted to Foundation
\* and SR Legacy.
C25_Tier4Unfiltered ==
    \A r \in tier_search.requested :
        /\ r[1] = 1 => r[2] = "Foundation,SR Legacy"
        /\ r[1] = 4 => r[2] = ""

\* C26: a call of search_food or get_food_details issues at most max_retries
\* (3) HTTP requests; after the first failed attempt it waits 2 s, after the
\* second 4 s (times in tenths of a second), and after the third it returns.
C26_BoundedRequestsWithBackoff ==
    [][api_client.pc = "request" =>
          /\ api_client.attempt + 1 <= 3
          /\ api_client'.requests = api_client.requests + 1
          /\ api_client'.last.kind \in {"timeout", "request_exception"} =>
                /\ api_client.attempt = 0 =>
                      api_client'.pc = "request" /\ api_client'.slept = 20
                /\ api_client.attempt = 1 =>
                      api_client'.pc = "request" /\ api_client'.slept = 40
                /\ api_client.attempt = 2 =>
                      api_client'.pc = "idle" /\ api_client'.ret.kind = "returned"
          /\ api_client'.last.kind = "json" => api_client'.pc = "idle"]_vars

\* a call whose three requests all failed is over and has returned
C26_Witness ==
    /\ api_client.pc = "idle"
    /\ api_client.calls > 0
    /\ api_client.last.kind \in {"timeout", "request_exception"}
    /\ api_client.ret.kind = "returned"
    /\ api_client.slept = rate_limit_delay

\* C27: when a request of the search-intent generator, the semantic verifier
\* or the nutritional gate returns content that is not valid JSON, the
\* function makes exactly one further request, without the structured-format
\* hint, before its call is over.
C27_OneRetryOnInvalidJson ==
    llm_exchange.pc = "idle" =>
        \A i \in 1..Len(llm_exchange.requests) :
            (/\ llm_exchange.requests[i].outcome = "invalid_json"
             /\ \A j \in 1..(i - 1) : llm_exchange.requests[j].outcome /= "invalid_json")
            => /\ Len(llm_exchange.requests) = i + 1
               /\ ~llm_exchange.requests[i + 1].hint

\* how often fdc id `id` occurs in a list of dicts under field name f
C28_Occurrences(list, f, id) == Cardinality({j \in 1..Len(list) : list[j][f] = id})

\* C28: in verify_semantic_match with an LLM answer, a candidate among the
\* first 80 whose cached score for the ingredient is >= 40 and which the
\* answer omits is in the verified set once, with its cached score, and a
\* candidate the answer lists is in it as often as listed, not once more.
\* (Answers short enough that the cut to the top 3 removes nothing.)
C28_ReadmitsCachedOnce ==
    (pc = "semantic" /\ llm_client) =>
        \A llm \in SemanticLLMResponses :
            (llm.ok /\ Len(llm.items) + Len(search_results) <= 3) =>
                LET res == verify_semantic_match(ingredient, search_results, 3, llm_client,
                                                 llm, semantic_score_cache).results
                IN  \A i \in 1..Len(search_results) :
                        LET id == search_results[i].fdcId
                            cached == dict_get(semantic_score_cache,
                                               semantic_cache_key(ingredient, id))
                            listed == C28_Occurrences(llm.items, "fdc_id", id)
                        IN  /\ (i <= 80 /\ cached /= None /\ cached >= 40 /\ listed = 0) =>
                                  /\ C28_Occurrences(res, "fdcId", id) = 1
                                  /\ \E j \in 1..Len(res) :
                                        /\ res[j].fdcId = id
                                        /\ res[j].semantic_match_score = cached
                            /\ listed > 0 => C28_Occurrences(res, "fdcId", id) = listed

\* the verifier is about to run on candidates 3 and 2, the cache holds 65 for
\* candidate 2, and for the answer that lists candidate 3 alone with 90 the
\* verified set is candidate 3 followed by candidate 2 with its cached 65
C28_Witness ==
    /\ pc = "semantic"
    /\ llm_client
    /\ [i \in 1..Len(search_results) |-> search_results[i].fdcId] = <<3, 2>>
    /\ dict_get(semantic_score_cache, semantic_cache_key(ingredient, 2)) = 65
    /\ dict_get(semantic_score_cache, semantic_cache_key(ingredient, 3)) = None
    /\ LET llm == [ok |-> TRUE, items |-> <<[fdc_id |-> 3, semantic_match_score |-> 90]>>]
           res == verify_semantic_match(ingredient, search_results, 3, llm_client,
                                        llm, semantic_score_cache).results
       IN  /\ llm \in SemanticLLMResponses
           /\ res = <<[fdcId |-> 3, semantic_match_score |-> 90],
                      [fdcId |-> 2, semantic_match_score |-> 65]>>

\* the expected nutrient values of the ingredient the score can be taken
\* against
C29_ExpectedNutrients == [DOMAIN NUTRIENT_WEIGHTS -> {None, 0, 10, 30}]

\* C29: when the LLM is unavailable, the score the nutritional gate gives a
\* candidate is the weighted per-nutrient relative-difference score of the
\* candidate's realized nutrients under the fixed weight table, against some
\* expected values of the ingredient.
C29_FallbackScoreIsWeighted ==
    \A i \in 1..Len(llm_exchange.fallback) :
        \E expected \in C29_ExpectedNutrients :
            LET weighted == _calculate_nutritional_similarity(expected,
                                                              llm_exchange.nutrients[i])
            IN  /\ ~weighted.raised
                /\ llm_exchange.fallback[i].nutritional_similarity_score * weighted.den
                   = weighted.num

\* C30: in the comprehensive multi-tier search with an ingredient, the
\* position penalty of a candidate is 10 times its index in the result list
\* of the tier it was taken from, so the first result of a tier has none.
C30_PenaltyByIndexInTier ==
    (tier_search.tier = 6 /\ tier_search.with_ingredient) =>
        \A o \in tier_search.origin : <<o[1], 10 * o[2]>> \in tier_search.penalties

\* C31: the query generate_retry_search_strategy produces for attempt 2 is a
\* function of the ingredient and the previous queries alone: whatever the
\* LLM answers, the query is the same.
C31_RetryQueryIgnoresLLM ==
    (pc = "plan" /\ attempt = 2) =>
        \A llm1 \in IntentLLMResponses, llm2 \in IntentLLMResponses :
            generate_retry_search_strategy(ingredient, previous_queries,
                generate_search_intent(ingredient, llm_client, llm1))
            = generate_retry_search_strategy(ingredient, previous_queries,
                generate_search_intent(ingredient, llm_client, llm2))

\* the dict holds the intent each thread saved
C32_HoldsBoth(d) ==
    \A t \in DOMAIN CacheSaves :
        get_cached_search_intent(d, CacheSaves[t].ingredient) = CacheSaves[t].search_intent

\* C32: concurrent save_search_intent_cache calls for distinct ingredients
\* lose no entry: when both are over, the in-process cache and the file hold
\* both intents; and the in-process map is modified only by a thread that
\* holds the lock.
C32_ConcurrentSavesKeepBoth ==
    /\ intent_store.unlocked = {}
    /\ (\A t \in DOMAIN CacheSaves : intent_store.pc[t] = "done") =>
          /\ intent_store.cache /= 0
          /\ C32_HoldsBoth(intent_store.objs[intent_store.cache])
          /\ C32_HoldsBoth(intent_store.file)

\* the semantic score the verifier gave the candidate a record emits
C33_OwnSemanticScore(r) ==
    dict_get(semantic_score_cache, semantic_cache_key(r.ingredient, r.fdc_id))

\* C33: an accepted search-sourced record reports the semantic score of the
\* candidate it emits; that candidate's own score is >= 65, and >= 80 when
\* the record is flagged HIGH_CONFIDENCE.
C33_ScoresOfEmittedCandidate ==
    \A r \in Records :
        (r.source = "search" /\ r.fdc_id /= None) =>
            /\ r.semantic_match_score = C33_OwnSemanticScore(r)
            /\ C33_OwnSemanticScore(r) >= 65
            /\ r.flag = "HIGH_CONFIDENCE" => C33_OwnSemanticScore(r) >= 80

C35_DistinctQueries ==
    Len(result_metadata.search_queries_used) = 2 =>
        result_metadata.search_queries_used[1] /= result_metadata.search_queries_used[2]

\* C36: after process_ingredients the counters are consistent: successful +
\* failed = total, successful = from_mappings + from_search, failed =
\* no_mapping_found, and every ingredient is either counted successful or
\* listed in failed_ingredients, never both.
C36_CountersConsistent ==
    pc = "done" =>
        /\ stats.successful + stats.failed = stats.total
        /\ stats.successful = stats.from_mappings + stats.from_search
        /\ stats.failed = stats.no_mapping_found
        /\ stats.failed = Len(failed)
        /\ stats.successful + Len(failed) = Len(ingredients)
        /\ \A i \in 1..Len(ingredients) :
              in_list(ingredients[i], failed)
              <=> ~\E r \in Records : /\ r.ingredient = ingredients[i]
                                      /\ r.flag \in {"HIGH_CONFIDENCE", "MID_CONFIDENCE"}

\* answers of the LLM that may list an id twice
C37_LLMResponses ==
    {[ok |-> FALSE, items |-> <<>>]} \cup
    {[ok |-> TRUE, items |-> q] :
        q \in SeqsUpTo([fdc_id : FdcIds, semantic_match_score : {65, 90}], 2)}

\* C37: verify_semantic_match returns only candidates of its input list, each
\* fdc_id at most once, whatever ids the LLM answer holds, repeated or
\* unknown ones included.
C37_VerifiedFromInputOnce ==
    pc = "semantic" =>
        \A llm \in C37_LLMResponses :
            LET res == verify_semantic_match(ingredient, search_results, 3, llm_client,
                                             llm, semantic_score_cache).results
            IN  /\ \A j \in 1..Len(res) :
                      \E i \in 1..Len(search_results) : search_results[i].fdcId = res[j].fdcId
                /\ \A i \in 1..Len(res), j \in 1..Len(res) :
                      res[i].fdcId = res[j].fdcId => i = j

C39_RawNutrients ==
    {[name |-> "Protein", amount |-> 5, unit |-> "g"],
     [name |-> "Adjusted Protein", amount |-> 7, unit |-> "g"],
     [name |-> "Water", amount |-> 90, unit |-> "g"]}

\* foodNutrients arrays of two differently named raw nutrients, in both orders
C39_FoodNutrientLists ==
    {fn \in C39_RawNutrients \X C39_RawNutrients : fn[1] /= fn[2]}

\* the standardized nutrients extract_nutrition_data emits for the array
C39_Standardized(fn) ==
    extract_nutrition_data([none |-> FALSE, fdcId |-> 2, foodNutrients |-> fn])
        .standardized_nutrients

\* C39: the value the nutrient normalizer emits for a canonical nutrient id
\* does not depend on the order of the raw nutrient list: a raw nutrient
\* resolved by exact dictionary match is never displaced by another raw
\* nutrient that reaches the same id through the case-insensitive or
\* substring fallback.
C39_OrderIndependent ==
    pc = "extract" =>
        \A fn \in C39_FoodNutrientLists :
            /\ C39_Standardized(fn) = C39_Standardized(<<fn[2], fn[1]>>)
            /\ \A i \in 1..2 :
                  fn[i].name \in DOMAIN USDA_NUTRIENT_MAPPINGS =>
                      C39_Standardized(fn)[USDA_NUTRIENT_MAPPINGS[fn[i].name]]
                          = [amount |-> fn[i].amount, unit |-> fn[i].unit]

\* C40: in every record returned after a curated miss, debug.attempt_details
\* holds exactly one entry per attempt performed, in attempt order, each with
\* the query of that attempt: its length equals retry_attempts and the number
\* of search_queries_used.
C40_OneDetailPerAttempt ==
    (ret.kind = "returned" /\ ret.record.source /= "curated_mapping") =>
        LET d == ret.record.debug
        IN  /\ Len(d.attempt_details) = ret.record.retry_attempts
            /\ Len(d.attempt_details) = Len(d.search_queries_used)
            /\ \A i \in 1..Len(d.attempt_details) :
                  /\ d.attempt_details[i].attempt = i
                  /\ i <= Len(d.search_queries_used)
                        => d.attempt_details[i].query = d.search_queries_used[i]

====
